---- MODULE Spec2Model ----
(***************************************************************************)
(* A model of mpatch: the LCS matcher, the patch filters, the aligner and  *)
(* the patch application, together with the unified-diff parser.           *)
(*                                                                         *)
(* Texts are sequences of characters (one-character strings), a line is a  *)
(* sequence of characters without the newline, and a FileArtifact is the   *)
(* sequence of its lines.  Option values are modelled as sequences of      *)
(* length 0 (None) or 1 (Some).                                            *)
(***************************************************************************)
EXTENDS Integers, Sequences, FiniteSets, TLC

\* ------------------------------------------------------------------ bounds
\* The largest number of lines of a generated source or target artifact.
MaxLines == 2
\* The largest number of changes of a generated patch.
MaxChanges == 2
\* The largest number of lines of an artifact given to the matcher alone.
MaxMatchLines == 3
\* The largest number of lines after the file headers of a generated diff.
MaxHunkLines == 3
\* The largest number of characters of a file read and rendered alone.
MaxTextLen == 6
\* The largest number of lines after the location line of a hunk parsed alone.
MaxHunkBody == 4
\* The largest depth of a generated InsideMatchFilter.
MaxDeepness == 2
\* The largest number of file diffs of a diff given to apply_all.
MaxFileDiffs == 2
\* The largest number of target lines of a modification walked step by step.
MaxWalkLines == 3
\* The largest number of changes of such a modification.
MaxWalkChanges == 3
\* The largest number of lines of the first hunk of a diff a patch is derived from.
MaxPatchBody == 3

\* The letters a generated line is made of (a line holds at most one): of the
\* artifacts given to the matcher alone, and of those sent through the pipeline.
Letters == {"a", "b"}
PipelineLetters == {"a"}

NL == "\n"

\* ------------------------------------------------------------------ options
None == <<>>
Some(x) == <<x>>
IsSome(o) == Len(o) = 1
IsNone(o) == Len(o) = 0
Unwrap(o) == o[1]
\* Option::flatten on an Option<Option<T>>
Flatten(o) == IF IsSome(o) THEN o[1] ELSE None
\* Option::map(|v| v + 1)
MapPlusOne(o) == IF IsSome(o) THEN Some(o[1] + 1) ELSE None

SetMax(S) == IF S = {} THEN 0 ELSE CHOOSE x \in S : \A y \in S : y <= x

\* ------------------------------------------------------------------ io.rs
\* str::split(sep): the segments of a text between the separator characters, empty
\* ones included; the k-th segment lies between the separators k - 1 and k.
SplitOn(s, sep) ==
    LET at == {i \in 1..Len(s) : s[i] = sep}
        n == Cardinality(at)
        Pos(k) == IF k = 0 THEN 0
                  ELSE IF k = n + 1 THEN Len(s) + 1
                  ELSE CHOOSE p \in at : Cardinality({q \in at : q < p}) = k - 1
    IN [k \in 1..(n + 1) |-> SubSeq(s, Pos(k - 1) + 1, Pos(k) - 1)]

\* A sequence without its last element, if that is empty.
WithoutEmptyLast(segments) ==
    IF Len(segments[Len(segments)]) = 0
    THEN SubSeq(segments, 1, Len(segments) - 1) ELSE segments

\* str::lines(): the segments between newlines, without a final empty one (the texts
\* hold no carriage return).
StrLines(t) == WithoutEmptyLast(SplitOn(t, NL))

\* FileArtifact::parse_content
parse_content(file_content) == StrLines(file_content)

\* impl Display for FileArtifact: the lines joined by "\n", nothing after the last.
RECURSIVE to_string(_)
to_string(lines) ==
    IF Len(lines) = 0 THEN <<>>
    ELSE IF Len(lines) = 1 THEN lines[1]
    ELSE lines[1] \o <<NL>> \o to_string(Tail(lines))

\* The file system entry of the target path: absent, or a file with its bytes.
Absent == [exists |-> FALSE, bytes |-> <<>>]
File(bytes) == [exists |-> TRUE, bytes |-> bytes]

\* read_or_create_empty: the lines of the file, or an empty artifact.
read_or_create_empty(d) == IF d.exists THEN parse_content(d.bytes) ELSE <<>>

\* ------------------------------------------------------------------ matching.rs
\* The lines similar::TextDiff::from_lines compares: every segment with its
\* terminator, so that a line with and a line without newline are different.
TokensOf(t) ==
    LET s == SplitOn(t, NL)
        k == Len(s)
        terminated == [i \in 1..(k - 1) |-> [value |-> s[i], nl |-> TRUE]]
    IN IF Len(s[k]) = 0 THEN terminated
       ELSE Append(terminated, [value |-> s[k], nl |-> FALSE])

\* LCSSet that pairs lines whether or not they are equal.
RECURSIVE LCSSetAnyLines(_, _, _, _)
LCSSetAnyLines(a, b, i, j) ==
    IF i = 0 \/ j = 0 THEN {<<>>}
    ELSE LET skipA == LCSSetAnyLines(a, b, i - 1, j)
             skipB == LCSSetAnyLines(a, b, i, j - 1)
             take == {Append(m, <<i, j>>) : m \in LCSSetAnyLines(a, b, i - 1, j - 1)}
             all == skipA \cup skipB \cup take
             best == SetMax({Len(m) : m \in all})
         IN {m \in all : Len(m) = best}

\* All longest common subsequences of the first i tokens of a and the first j
\* tokens of b, each as the ascending sequence of its matched pairs <<old, new>>
\* (1-based).  TextDiff::from_lines computes one of them (Myers' algorithm);
\* which one is left open.
RECURSIVE LCSSet(_, _, _, _)
LCSSet(a, b, i, j) ==
    IF i = 0 \/ j = 0 THEN {<<>>}
    ELSE LET skipA == LCSSet(a, b, i - 1, j)
             skipB == LCSSet(a, b, i, j - 1)
             take == IF a[i] = b[j]
                     THEN {Append(m, <<i, j>>) : m \in LCSSet(a, b, i - 1, j - 1)}
                     ELSE {}
             all == skipA \cup skipB \cup take
             best == SetMax({Len(m) : m \in all})
         IN {m \in all : Len(m) = best}

\* Change::new_index() of the change that holds old index i (0-based results).
NewIndexOf(m, i) ==
    IF \E k \in 1..Len(m) : m[k][1] = i
    THEN Some((CHOOSE p \in {m[k] : k \in 1..Len(m)} : p[1] = i)[2] - 1)
    ELSE None

\* Change::old_index() of the change that holds new index j (0-based results).
OldIndexOf(m, j) ==
    IF \E k \in 1..Len(m) : m[k][2] = j
    THEN Some((CHOOSE p \in {m[k] : k \in 1..Len(m)} : p[2] = j)[1] - 1)
    ELSE None

\* MatchVectors with the two last changes mixed up where both files end with a
\* newline: each side is given the index after its own last line.
MatchVectorsMixedUp(a, b, m) ==
    LET n == Len(a)
        k == Len(b)
        l2r == [i \in 1..n |-> NewIndexOf(m, i)]
        r2l == [j \in 1..k |-> OldIndexOf(m, j)]
    IN IF n > 0 /\ k > 0 /\ a[n].nl /\ b[k].nl
       THEN [source_to_target |-> Append(l2r, Some(n)),
             target_to_source |-> Append(r2l, Some(k))]
       ELSE IF n > 0 /\ a[n].nl
       THEN [source_to_target |-> Append(l2r, None), target_to_source |-> r2l]
       ELSE IF k > 0 /\ b[k].nl
       THEN [source_to_target |-> l2r, target_to_source |-> Append(r2l, None)]
       ELSE [source_to_target |-> l2r, target_to_source |-> r2l]

\* MatchVectors that appends None to both vectors where only the source ends with a
\* newline.
MatchVectorsNoneOnBoth(a, b, m) ==
    LET n == Len(a)
        k == Len(b)
        l2r == [i \in 1..n |-> NewIndexOf(m, i)]
        r2l == [j \in 1..k |-> OldIndexOf(m, j)]
        src_nl == n > 0 /\ a[n].nl
        tgt_nl == k > 0 /\ b[k].nl
    IN IF n > 0 /\ k > 0
       THEN IF src_nl /\ tgt_nl
            THEN [source_to_target |-> Append(l2r, MapPlusOne(Some(k - 1))),
                  target_to_source |-> Append(r2l, MapPlusOne(Some(n - 1)))]
            ELSE IF src_nl
            THEN [source_to_target |-> Append(l2r, None),
                  target_to_source |-> Append(r2l, None)]
            ELSE IF tgt_nl
            THEN [source_to_target |-> l2r, target_to_source |-> Append(r2l, None)]
            ELSE [source_to_target |-> l2r, target_to_source |-> r2l]
       ELSE IF n > 0
       THEN IF src_nl
            THEN [source_to_target |-> Append(l2r, None), target_to_source |-> r2l]
            ELSE [source_to_target |-> l2r, target_to_source |-> r2l]
       ELSE IF k > 0
       THEN IF tgt_nl
            THEN [source_to_target |-> l2r, target_to_source |-> Append(r2l, None)]
            ELSE [source_to_target |-> l2r, target_to_source |-> r2l]
       ELSE [source_to_target |-> l2r, target_to_source |-> r2l]

\* The vectors LCSMatcher::match_files builds from the changes of one diff m.
MatchVectors(a, b, m) ==
    LET n == Len(a)
        k == Len(b)
        l2r == [i \in 1..n |-> NewIndexOf(m, i)]
        r2l == [j \in 1..k |-> OldIndexOf(m, j)]
        src_nl == n > 0 /\ a[n].nl
        tgt_nl == k > 0 /\ b[k].nl
    IN IF n > 0 /\ k > 0
       THEN IF src_nl /\ tgt_nl
            THEN [source_to_target |-> Append(l2r, MapPlusOne(Some(k - 1))),
                  target_to_source |-> Append(r2l, MapPlusOne(Some(n - 1)))]
            ELSE IF src_nl
            THEN [source_to_target |-> Append(l2r, None), target_to_source |-> r2l]
            ELSE IF tgt_nl
            THEN [source_to_target |-> l2r, target_to_source |-> Append(r2l, None)]
            ELSE [source_to_target |-> l2r, target_to_source |-> r2l]
       ELSE IF n > 0
       THEN IF src_nl
            THEN [source_to_target |-> Append(l2r, None), target_to_source |-> r2l]
            ELSE [source_to_target |-> l2r, target_to_source |-> r2l]
       ELSE IF k > 0
       THEN IF tgt_nl
            THEN [source_to_target |-> l2r, target_to_source |-> Append(r2l, None)]
            ELSE [source_to_target |-> l2r, target_to_source |-> r2l]
       ELSE [source_to_target |-> l2r, target_to_source |-> r2l]

\* LCSMatcher::match_files: the matchings it may return for two artifacts.
match_files(left, right) ==
    LET a == TokensOf(to_string(left))
        b == TokensOf(to_string(right))
    IN {MatchVectors(a, b, m) : m \in LCSSet(a, b, Len(a), Len(b))}

\* Matching::target_index for a line number >= 1
target_index(mt, source_index) ==
    IF source_index - 1 < Len(mt.source_to_target)
    THEN Some(MapPlusOne(mt.source_to_target[source_index]))
    ELSE None

\* Matching::source_index for a line number >= 1
source_index(mt, target_idx) ==
    IF target_idx - 1 < Len(mt.target_to_source)
    THEN Some(MapPlusOne(mt.target_to_source[target_idx]))
    ELSE None

\* Matching::target_index_fuzzy: <<match id, match offset>>; the walk goes up
\* from line_number to the nearest source line with a match in the target.
RECURSIVE FuzzyWalk(_, _, _)
FuzzyWalk(mt, line_number, match_offset) ==
    IF line_number > 0 /\ IsNone(Flatten(target_index(mt, line_number)))
    THEN FuzzyWalk(mt, line_number - 1, match_offset + 1)
    ELSE <<line_number, match_offset>>

\* target_index_fuzzy that returns the matched line itself after a walk up.
target_index_fuzzy_on_match(mt, line_number) ==
    LET w == FuzzyWalk(mt, line_number, 0)
    IN IF w[1] = 0 THEN <<None, w[2]>>
       ELSE <<Unwrap(target_index(mt, w[1])), w[2]>>

\* Matching::target_index_fuzzy: <<match id, match offset>>
target_index_fuzzy(mt, line_number) ==
    LET w == FuzzyWalk(mt, line_number, 0)
        insert_after == w[2] > 0
    IN IF w[1] = 0 THEN <<None, w[2]>>
       ELSE IF insert_after
       THEN <<MapPlusOne(Unwrap(target_index(mt, w[1]))), w[2]>>
       ELSE <<Unwrap(target_index(mt, w[1])), w[2]>>

\* ------------------------------------------------------------------ patch.rs
\* TypeRank with the order of the types reversed: Add < Remove
TypeRankAddFirst(t) == IF t = "Remove" THEN 1 ELSE 0

\* impl Ord for LineChangeType: Remove < Add
TypeRank(t) == IF t = "Remove" THEN 0 ELSE 1

\* impl Ord for Change: self <= other by (line number, change type, change id)
ChangeLeq(c, d) ==
    \/ c.line_number < d.line_number
    \/ /\ c.line_number = d.line_number
       /\ \/ TypeRank(c.change_type) < TypeRank(d.change_type)
          \/ /\ c.change_type = d.change_type
             /\ c.change_id <= d.change_id

\* Insert c behind the elements of the sorted s that are not greater than c.
InsertChange(c, s) ==
    LET p == Cardinality({i \in 1..Len(s) : \A k \in 1..i : ChangeLeq(s[k], c)})
    IN SubSeq(s, 1, p) \o <<c>> \o SubSeq(s, p + 1, Len(s))

\* SortChanges left out: the changes stay in the order of the patch.
SortChangesOmitted(s) == s

\* Vec<Change>::sort(): the stable sort by Ord
RECURSIVE SortChanges(_)
SortChanges(s) ==
    IF Len(s) = 0 THEN <<>>
    ELSE InsertChange(s[Len(s)], SortChanges(SubSeq(s, 1, Len(s) - 1)))

InsertByLine(c, s) ==
    LET p == Cardinality({i \in 1..Len(s) :
                             \A k \in 1..i : s[k].line_number <= c.line_number})
    IN SubSeq(s, 1, p) \o <<c>> \o SubSeq(s, p + 1, Len(s))

\* sort_by(|a, b| a.line_number.cmp(&b.line_number)): the stable sort by line number
RECURSIVE SortByLineNumber(_)
SortByLineNumber(s) ==
    IF Len(s) = 0 THEN <<>>
    ELSE InsertByLine(s[Len(s)], SortByLineNumber(SubSeq(s, 1, Len(s) - 1)))

Reverse(s) == [i \in 1..Len(s) |-> s[Len(s) + 1 - i]]

\* ------------------------------------------------------------------ alignment.rs
\* TargetLineOf with the fuzzy lookup used for removals as well.
TargetLineOfFuzzyRemove(mt, change) ==
    LET f == target_index_fuzzy(mt, change.line_number)[1]
    IN IF change.change_type = "Add"
       THEN IF IsSome(f) THEN f ELSE Some(0)
       ELSE f

\* TargetLineOf without the fallback to line 0 for additions.
TargetLineOfNoFallback(mt, change) ==
    IF change.change_type = "Add"
    THEN target_index_fuzzy(mt, change.line_number)[1]
    ELSE Flatten(target_index(mt, change.line_number))

\* TargetLineOf that leaves a matched Remove at the number of its source line.
TargetLineOfSourceLine(mt, change) ==
    IF change.change_type = "Add"
    THEN LET f == target_index_fuzzy(mt, change.line_number)[1]
         IN IF IsSome(f) THEN f ELSE Some(0)
    ELSE IF IsSome(Flatten(target_index(mt, change.line_number)))
    THEN Some(change.line_number)
    ELSE None

\* The target line of one change: Some(line) to align it, None to reject it.
TargetLineOf(mt, change) ==
    IF change.change_type = "Add"
    THEN LET f == target_index_fuzzy(mt, change.line_number)[1]
         IN IF IsSome(f) THEN f ELSE Some(0)
    ELSE Flatten(target_index(mt, change.line_number))

\* The loop of align_to_target over the changes i.. of the patch.
RECURSIVE AlignLoop(_, _, _, _, _)
AlignLoop(mt, cs, i, changes, rejected_changes) ==
    IF i > Len(cs) THEN <<changes, rejected_changes>>
    ELSE LET t == TargetLineOf(mt, cs[i])
         IN IF IsSome(t)
            THEN AlignLoop(mt, cs, i + 1,
                           Append(changes, [cs[i] EXCEPT !.line_number = Unwrap(t)]),
                           rejected_changes)
            ELSE AlignLoop(mt, cs, i + 1, changes, Append(rejected_changes, cs[i]))

\* align_to_target that returns no rejects.
align_to_target_without_rejects(p, mt, tgt) ==
    IF p.change_type = "Create"
    THEN [changes |-> p.changes, rejected_changes |-> <<>>,
          target |-> tgt, change_type |-> p.change_type]
    ELSE LET r == AlignLoop(mt, p.changes, 1, <<>>, <<>>)
         IN [changes |-> SortChanges(r[1]), rejected_changes |-> <<>>,
             target |-> tgt, change_type |-> p.change_type]

\* align_to_target
align_to_target(p, mt, tgt) ==
    IF p.change_type = "Create"
    THEN [changes |-> p.changes, rejected_changes |-> <<>>,
          target |-> tgt, change_type |-> p.change_type]
    ELSE LET r == AlignLoop(mt, p.changes, 1, <<>>, <<>>)
         IN [changes |-> SortChanges(r[1]), rejected_changes |-> r[2],
             target |-> tgt, change_type |-> p.change_type]

\* ------------------------------------------------------------------ filtering.rs
\* DistanceKeep with the offset compared by <= instead of <.
DistanceKeepInclusive(d, change, mt) ==
    IF change.change_type = "Remove" THEN TRUE
    ELSE target_index_fuzzy(mt, change.line_number)[2] <= d

\* DistanceFilter::keep_change
DistanceKeep(d, change, mt) ==
    IF change.change_type = "Remove" THEN TRUE
    ELSE target_index_fuzzy(mt, change.line_number)[2] < d

\* The subsequence of the changes that satisfy / do not satisfy keep.
RECURSIVE DistancePartition(_, _, _, _, _, _)
DistancePartition(d, mt, cs, i, changes, rejected_changes) ==
    IF i > Len(cs) THEN <<changes, rejected_changes>>
    ELSE IF DistanceKeep(d, cs[i], mt)
    THEN DistancePartition(d, mt, cs, i + 1, Append(changes, cs[i]), rejected_changes)
    ELSE DistancePartition(d, mt, cs, i + 1, changes, Append(rejected_changes, cs[i]))

\* impl Filter for DistanceFilter / KeepAllFilter: apply_filter
apply_filter(f, p, mt) ==
    IF f.kind = "KeepAll"
    THEN [change_type |-> p.change_type, changes |-> p.changes,
          rejected_changes |-> <<>>]
    ELSE LET r == DistancePartition(f.arg, mt, p.changes, 1, <<>>, <<>>)
         IN [change_type |-> p.change_type, changes |-> r[1],
             rejected_changes |-> r[2]]

\* usize subtraction a - b: a build with overflow checks panics when b > a, a build
\* without them wraps around to a number past the end of every vector ("huge").
CheckedSub(a, b, overflow_checks) ==
    IF b <= a THEN [kind |-> "usize", n |-> a - b]
    ELSE IF overflow_checks THEN [kind |-> "panic", n |-> 0]
    ELSE [kind |-> "huge", n |-> 0]

\* target_index(..).is_none() for a line number that may be the outcome of an
\* overflowing subtraction: "true", "false" or "panic"; the index idx - 1 of
\* target_index overflows for line 0.
TargetIndexIsNone(mt, idx, overflow_checks) ==
    IF idx.kind = "panic" THEN "panic"
    ELSE IF idx.kind = "huge" THEN "true"
    ELSE IF idx.n = 0 THEN (IF overflow_checks THEN "panic" ELSE "true")
    ELSE IF IsNone(target_index(mt, idx.n)) THEN "true" ELSE "false"

\* The loop of InsideMatchFilter::keep_change from i up to k - 1: "keep", "reject"
\* or "panic"
RECURSIVE InsideLoop(_, _, _, _, _)
InsideLoop(k, line_number, mt, i, overflow_checks) ==
    IF i >= k THEN "keep"
    ELSE LET above == TargetIndexIsNone(mt, CheckedSub(line_number, i, overflow_checks),
                                        overflow_checks)
             below == TargetIndexIsNone(mt, [kind |-> "usize", n |-> line_number + i],
                                        overflow_checks)
         IN IF above = "panic" THEN "panic"
            ELSE IF above = "true" THEN "reject"
            ELSE IF below = "true" THEN "reject"
            ELSE InsideLoop(k, line_number, mt, i + 1, overflow_checks)

\* InsideMatchFilter::keep_change
InsideKeep(k, change, mt, overflow_checks) ==
    IF change.change_type = "Remove"
    THEN IF IsSome(target_index(mt, change.line_number)) THEN "keep" ELSE "reject"
    ELSE InsideLoop(k, change.line_number, mt, 0, overflow_checks)

\* impl Filter for InsideMatchFilter: apply_filter; the filtered patch, or a panic
RECURSIVE InsidePartition(_, _, _, _, _, _, _)
InsidePartition(k, mt, cs, i, changes, rejected_changes, overflow_checks) ==
    IF i > Len(cs) THEN <<"Ok", changes, rejected_changes>>
    ELSE LET keep == InsideKeep(k, cs[i], mt, overflow_checks)
         IN IF keep = "panic" THEN <<"panic", <<>>, <<>>>>
            ELSE IF keep = "keep"
            THEN InsidePartition(k, mt, cs, i + 1, Append(changes, cs[i]),
                                 rejected_changes, overflow_checks)
            ELSE InsidePartition(k, mt, cs, i + 1, changes,
                                 Append(rejected_changes, cs[i]), overflow_checks)

\* ------------------------------------------------------------------ application.rs
\* reject_all that forgets the changes rejected before.
reject_all_changes_only(p) ==
    [p EXCEPT !.changes = <<>>,
              !.rejected_changes = SortByLineNumber(Reverse(p.changes))]

\* reject_all: the changes and the rejects, popped from the back, then
\* sorted by line number.
reject_all(p) ==
    [p EXCEPT !.changes = <<>>,
              !.rejected_changes =
                  SortByLineNumber(Reverse(p.changes) \o Reverse(p.rejected_changes))]

\* The condition of the inner while loop of apply_file_modification.
Eligible(c, target_line_number) ==
    IF c.change_type = "Add" THEN c.line_number <= target_line_number
    ELSE c.line_number = target_line_number

\* The inner while loop for one target line: <<next change, patched lines, removed>>
RECURSIVE Consume(_, _, _, _)
Consume(changes, ci, target_line_number, patched_lines) ==
    IF ci <= Len(changes) /\ Eligible(changes[ci], target_line_number)
    THEN IF changes[ci].change_type = "Add"
         THEN Consume(changes, ci + 1, target_line_number,
                      Append(patched_lines, changes[ci].line))
         ELSE <<ci + 1, patched_lines, TRUE>>
    ELSE <<ci, patched_lines, FALSE>>

\* The 'lines_loop of apply_file_modification: <<next change, patched lines>>
RECURSIVE LinesLoop(_, _, _, _, _)
LinesLoop(lines, changes, target_line_number, ci, patched_lines) ==
    IF target_line_number > Len(lines) THEN <<ci, patched_lines>>
    ELSE LET c == Consume(changes, ci, target_line_number, patched_lines)
         IN IF c[3]
            THEN LinesLoop(lines, changes, target_line_number + 1, c[1], c[2])
            ELSE LinesLoop(lines, changes, target_line_number + 1, c[1],
                           Append(c[2], lines[target_line_number]))

\* The contents of the changes, in order (map(|c| c.line))
ChangeLines(cs) == [i \in 1..Len(cs) |-> cs[i].line]

\* apply_file_modification that skips a remaining Remove instead of panicking.
apply_file_modification_lenient(p) ==
    LET w == LinesLoop(p.target, p.changes, 1, 1, <<>>)
        remaining == SubSeq(p.changes, w[1], Len(p.changes))
        adds == SelectSeq(remaining, LAMBDA c : c.change_type = "Add")
    IN [kind |-> "Ok", patched_file |-> w[2] \o ChangeLines(adds),
        rejected_changes |-> p.rejected_changes, change_type |-> p.change_type]

\* apply_file_modification: the walk over the target lines, then the remaining
\* changes; a remaining Remove panics.
apply_file_modification(p) ==
    LET w == LinesLoop(p.target, p.changes, 1, 1, <<>>)
        remaining == SubSeq(p.changes, w[1], Len(p.changes))
    IN IF \E i \in 1..Len(remaining) : remaining[i].change_type = "Remove"
       THEN [kind |-> "panic", patched_file |-> <<>>, rejected_changes |-> <<>>,
             change_type |-> p.change_type]
       ELSE [kind |-> "Ok", patched_file |-> w[2] \o ChangeLines(remaining),
             rejected_changes |-> p.rejected_changes, change_type |-> p.change_type]

\* apply_file_creation that collects the lines from the last change to the first.
apply_file_creation_reversed(p) ==
    [kind |-> "Ok", patched_file |-> Reverse(ChangeLines(p.changes)),
     rejected_changes |-> p.rejected_changes, change_type |-> p.change_type]

\* apply_file_creation
apply_file_creation(p) ==
    [kind |-> "Ok", patched_file |-> ChangeLines(p.changes),
     rejected_changes |-> p.rejected_changes, change_type |-> p.change_type]

\* apply_file_removal
apply_file_removal(p) ==
    [kind |-> "Ok", patched_file |-> <<>>,
     rejected_changes |-> p.rejected_changes, change_type |-> p.change_type]

\* The check of apply_patch: a Create needs the path absent, the others present.
RejectPatch(p, d) == IF p.change_type = "Create" THEN d.exists ELSE ~d.exists

\* apply_patch: the outcome returned
apply_patch(p, d) ==
    IF RejectPatch(p, d)
    THEN [kind |-> "Ok", patched_file |-> p.target,
          rejected_changes |-> reject_all(p).rejected_changes,
          change_type |-> p.change_type]
    ELSE IF p.change_type = "Create" THEN apply_file_creation(p)
    ELSE IF p.change_type = "Remove" THEN apply_file_removal(p)
    ELSE apply_file_modification(p)

\* FileOps with the removal of a file not guarded by dryrun.
FileOpsUnguardedRemoval(p, d, dry, out) ==
    IF RejectPatch(p, d) \/ out.kind # "Ok" THEN <<>>
    ELSE IF p.change_type = "Remove" THEN <<"remove_file">>
    ELSE IF dry THEN <<>>
    ELSE IF p.change_type = "Create" THEN <<"create_dir_all", "write">>
    ELSE <<"write">>

\* The file operations apply_patch performs on the target path, in order.
FileOps(p, d, dry, out) ==
    IF RejectPatch(p, d) \/ dry \/ out.kind # "Ok" THEN <<>>
    ELSE IF p.change_type = "Create" THEN <<"create_dir_all", "write">>
    ELSE IF p.change_type = "Remove" THEN <<"remove_file">>
    ELSE <<"write">>

\* The target path after the file operations (FileArtifact::write is fs::write).
DiskAfter(d, ops, out) ==
    IF ops = <<>> THEN d
    ELSE IF ops[Len(ops)] = "remove_file" THEN Absent
    ELSE File(to_string(out.patched_file))

\* ------------------------------------------------------------------ diffs.rs
\* A result: Ok with a value, an Err of kind DiffParseError, or a panic.
Ok(v) == [kind |-> "Ok", value |-> v]
DiffParseError == [kind |-> "DiffParseError", value |-> <<>>]
Panic == [kind |-> "panic", value |-> <<>>]

\* The literals of the diff format, as characters.
DiffPrefix == <<"d", "i", "f", "f", " ">>
SourcePrefix == <<"-", "-", "-", " ">>
TargetPrefix == <<"+", "+", "+", " ">>
HunkPrefix == <<"@", "@", " ">>
HunkSuffix == <<" ", "@", "@">>
EOFLine == <<"\\", " ", "N", "o", " ", "n", "e", "w", "l", "i", "n", "e", " ", "a",
             "t", " ", "e", "n", "d", " ", "o", "f", " ", "f", "i", "l", "e">>

\* str::starts_with, str::ends_with
starts_with(s, prefix) == Len(s) >= Len(prefix) /\ SubSeq(s, 1, Len(prefix)) = prefix
ends_with(s, suffix) ==
    Len(s) >= Len(suffix) /\ SubSeq(s, Len(s) - Len(suffix) + 1, Len(s)) = suffix

\* char::is_whitespace, for the characters of the texts
Whitespace == {" ", "\t", NL, "\r"}

\* str::split_whitespace: the maximal runs of characters that are no whitespace,
\* the k-th from the k-th position at which a run starts to the end of that run
split_whitespace(s) ==
    LET starts == {i \in 1..Len(s) :
                      s[i] \notin Whitespace /\ (i = 1 \/ s[i - 1] \in Whitespace)}
        Start(k) == CHOOSE p \in starts : Cardinality({q \in starts : q < p}) = k - 1
        End(p) == CHOOSE e \in p..Len(s) :
                      /\ \A j \in p..e : s[j] \notin Whitespace
                      /\ e = Len(s) \/ s[e + 1] \in Whitespace
    IN [k \in 1..Cardinality(starts) |-> SubSeq(s, Start(k), End(Start(k)))]

Digits == <<"0", "1", "2", "3", "4", "5", "6", "7", "8", "9">>
IsDigit(c) == \E k \in 1..Len(Digits) : Digits[k] = c
DigitValue(c) == (CHOOSE k \in 1..Len(Digits) : Digits[k] = c) - 1

RECURSIVE DecimalValue(_)
DecimalValue(s) ==
    IF s = <<>> THEN 0
    ELSE DecimalValue(SubSeq(s, 1, Len(s) - 1)) * Len(Digits) + DigitValue(s[Len(s)])

\* str::parse::<usize>: decimal digits after an optional plus sign (the numbers of
\* the texts are far below usize::MAX)
ParseDigits(d) ==
    IF d = <<>> \/ \E i \in 1..Len(d) : ~IsDigit(d[i]) THEN None
    ELSE Some(DecimalValue(d))

parse_usize(s) == ParseDigits(IF Len(s) > 0 /\ s[1] = "+" THEN Tail(s) ELSE s)

\* Display for usize
RECURSIVE to_decimal(_)
to_decimal(n) ==
    IF n < Len(Digits) THEN <<Digits[n + 1]>>
    ELSE to_decimal(n \div Len(Digits)) \o <<Digits[(n % Len(Digits)) + 1]>>

\* The numbers of HunkLocation::try_from: each part parsed; one that is no number is
\* an error, a missing length is 1.
ParsedNumbers(parts) == [i \in 1..Len(parts) |-> parse_usize(parts[i])]

NumbersLocation(numbers) ==
    IF \E i \in 1..Len(numbers) : IsNone(numbers[i]) THEN DiffParseError
    ELSE Ok([hunk_start |-> numbers[1][1],
             hunk_length |-> IF Len(numbers) = 1 THEN 1 ELSE numbers[2][1]])

\* impl TryFrom<&str> for HunkLocation
HunkLocation_try_from(value) ==
    IF value = <<>> THEN DiffParseError
    ELSE IF value[1] # "-" /\ value[1] # "+" THEN DiffParseError
    ELSE NumbersLocation(ParsedNumbers(SplitOn(Tail(value), ",")))

\* impl Display for HunkLocation
HunkLocation_fmt(l) ==
    IF l.hunk_start = 1 /\ l.hunk_length = 1 THEN <<"1">>
    ELSE to_decimal(l.hunk_start) \o <<",">> \o to_decimal(l.hunk_length)

\* The locations of parse_location_line: of the tokens, the first is skipped and
\* the next two are taken; an invalid one is an error, a missing one is unwrapped.
TakenLocations(tokens) ==
    [i \in 1..(IF Len(tokens) < 3 THEN Len(tokens) - 1 ELSE 2) |->
        HunkLocation_try_from(tokens[i + 1])]

LocationPair(hunk_locations) ==
    IF \E i \in 1..Len(hunk_locations) : hunk_locations[i].kind # "Ok"
    THEN DiffParseError
    ELSE IF Len(hunk_locations) < 2 THEN Panic
    ELSE Ok(<<hunk_locations[1].value, hunk_locations[2].value>>)

\* Hunk::parse_location_line
parse_location_line(line) ==
    IF ~starts_with(line, HunkPrefix) \/ ~ends_with(line, HunkSuffix)
    THEN DiffParseError
    ELSE LocationPair(TakenLocations(split_whitespace(line)))

\* LineType::determine_type
determine_type(line) ==
    IF line = EOFLine THEN Ok("EOF")
    ELSE IF line = <<>> THEN DiffParseError
    ELSE IF line[1] = "+" THEN Ok("Add")
    ELSE IF line[1] = "-" THEN Ok("Remove")
    ELSE IF line[1] = " " THEN Ok("Context")
    ELSE DiffParseError

\* RealLocation that builds a ChangeLocation.
RealLocationAsChange(n) == [kind |-> "ChangeLocation", value |-> n]

RealLocation(n) == [kind |-> "RealLocation", value |-> n]
ChangeLocation(n) == [kind |-> "ChangeLocation", value |-> n]
NoLocation == [kind |-> "None", value |-> 0]

\* The loop of Hunk::try_from over the lines after the location line
RECURSIVE HunkLinesLoop(_, _, _, _, _)
HunkLinesLoop(lines, i, source_id, target_id, hunk_lines) ==
    IF i > Len(lines) THEN Ok(hunk_lines)
    ELSE LET t == determine_type(lines[i])
             HL(s, g) == Append(hunk_lines, [line |-> lines[i], source_line |-> s,
                                             target_line |-> g, line_type |-> t.value])
         IN IF t.kind # "Ok" THEN t
            ELSE IF t.value = "Context"
            THEN HunkLinesLoop(lines, i + 1, source_id + 1, target_id + 1,
                               HL(RealLocation(source_id), RealLocation(target_id)))
            ELSE IF t.value = "Add"
            THEN HunkLinesLoop(lines, i + 1, source_id, target_id + 1,
                               HL(ChangeLocation(source_id), RealLocation(target_id)))
            ELSE IF t.value = "Remove"
            THEN HunkLinesLoop(lines, i + 1, source_id + 1, target_id,
                               HL(RealLocation(source_id), ChangeLocation(target_id)))
            ELSE HunkLinesLoop(lines, i + 1, source_id, target_id,
                               HL(NoLocation, NoLocation))

\* impl TryFrom<Vec<String>> for Hunk: the location line is unwrapped
\* (its steps: the hunk of the locations and the parsed lines, a failure of the lines
\* passed on by ?; the lines parsed from the starts of the unwrapped locations)
HunkOfLines(locations, hunk_lines) ==
    IF hunk_lines.kind # "Ok" THEN hunk_lines
    ELSE Ok([source_location |-> locations[1], target_location |-> locations[2],
             lines |-> hunk_lines.value])

\* HunkAtLocations with both counters started at the source start.
HunkAtLocationsSourceStart(lines, locations) ==
    IF locations.kind # "Ok" THEN Panic
    ELSE HunkOfLines(locations.value,
                     HunkLinesLoop(lines, 2, locations.value[1].hunk_start,
                                   locations.value[1].hunk_start, <<>>))

HunkAtLocations(lines, locations) ==
    IF locations.kind # "Ok" THEN Panic
    ELSE HunkOfLines(locations.value,
                     HunkLinesLoop(lines, 2, locations.value[1].hunk_start,
                                   locations.value[2].hunk_start, <<>>))

Hunk_try_from(lines) == HunkAtLocations(lines, parse_location_line(lines[1]))

\* impl Display for Hunk
RECURSIVE HunkLines_fmt(_)
HunkLines_fmt(lines) ==
    IF lines = <<>> THEN <<>>
    ELSE <<NL>> \o lines[1].line \o HunkLines_fmt(Tail(lines))

Hunk_fmt(h) ==
    HunkPrefix \o <<"-">> \o HunkLocation_fmt(h.source_location) \o <<" ", "+">>
        \o HunkLocation_fmt(h.target_location) \o HunkSuffix \o HunkLines_fmt(h.lines)

\* split_file_metainfo: the second token is the path, the tokens after it, joined by
\* one space, the timestamp; indexing the path panics when there is no second token.
RECURSIVE JoinTimestamp(_, _)
JoinTimestamp(parts, i) ==
    IF i > Len(parts) THEN <<>>
    ELSE (IF i > 3 THEN <<" ">> ELSE <<>>) \o parts[i] \o JoinTimestamp(parts, i + 1)

split_file_metainfo(input) ==
    LET parts == split_whitespace(input)
    IN IF Len(parts) < 2 THEN Panic
       ELSE Ok([path |-> parts[2], timestamp |-> JoinTimestamp(parts, 3)])

\* impl TryFrom<String> for SourceFileHeader
SourceFileHeader_try_from(line) ==
    IF ~starts_with(line, SourcePrefix) THEN DiffParseError
    ELSE split_file_metainfo(line)

\* impl TryFrom<String> for TargetFileHeader
TargetFileHeader_try_from(line) ==
    IF ~starts_with(line, TargetPrefix) THEN DiffParseError
    ELSE split_file_metainfo(line)

\* The lines collected into groups, a new group at every line with the prefix.
RECURSIVE GroupLines(_, _, _, _, _)
GroupLines(lines, prefix, i, cur, groups) ==
    LET closed == IF cur = <<>> THEN groups ELSE Append(groups, cur)
    IN IF i > Len(lines) THEN closed
       ELSE IF starts_with(lines[i], prefix)
       THEN GroupLines(lines, prefix, i + 1, <<lines[i]>>, closed)
       ELSE GroupLines(lines, prefix, i + 1, Append(cur, lines[i]), groups)

\* The hunks of FileDiff::try_from, parsed group by group; the first failure ends it.
RECURSIVE ParseHunks(_, _, _)
RECURSIVE PushHunk(_, _, _, _)
PushHunk(groups, i, hunks, hunk) ==
    IF hunk.kind # "Ok" THEN hunk
    ELSE ParseHunks(groups, i + 1, Append(hunks, hunk.value))

ParseHunks(groups, i, hunks) ==
    IF i > Len(groups) THEN Ok(hunks)
    ELSE PushHunk(groups, i, hunks, Hunk_try_from(groups[i]))

\* impl TryFrom<Vec<String>> for FileDiff, on a non-empty vector of lines
\* (its steps, from the last to the first: the file diff of the parsed parts; the
\* hunks parsed after the target file header; the target file header parsed after
\* the source file header; a failure of a part is passed on by ?, a missing header
\* line is unwrapped)
FileDiffOfParts(lines, source_file, target_file, hunks) ==
    IF hunks.kind # "Ok" THEN hunks
    ELSE Ok([diff_command |-> lines[1], source_file_header |-> source_file,
             target_file_header |-> target_file, hunks |-> hunks.value])

AfterTargetFile(lines, source_file, target_file) ==
    IF target_file.kind # "Ok" THEN target_file
    ELSE FileDiffOfParts(lines, source_file, target_file.value,
                         ParseHunks(GroupLines(SubSeq(lines, 4, Len(lines)),
                                               HunkPrefix, 1, <<>>, <<>>), 1, <<>>))

AfterSourceFile(lines, source_file) ==
    IF source_file.kind # "Ok" THEN source_file
    ELSE IF Len(lines) < 3 THEN Panic
    ELSE AfterTargetFile(lines, source_file.value,
                         TargetFileHeader_try_from(lines[3]))

FileDiff_try_from(lines) ==
    IF ~starts_with(lines[1], DiffPrefix) THEN DiffParseError
    ELSE IF Len(lines) < 2 THEN Panic
    ELSE AfterSourceFile(lines, SourceFileHeader_try_from(lines[2]))

\* impl Display for FileDiff
RECURSIVE Hunks_fmt(_)
Hunks_fmt(hunks) ==
    IF hunks = <<>> THEN <<>>
    ELSE <<NL>> \o Hunk_fmt(hunks[1]) \o Hunks_fmt(Tail(hunks))

FileDiff_fmt(fd) ==
    fd.diff_command
        \o <<NL>> \o SourcePrefix \o fd.source_file_header.path
        \o <<"\t">> \o fd.source_file_header.timestamp
        \o <<NL>> \o TargetPrefix \o fd.target_file_header.path
        \o <<"\t">> \o fd.target_file_header.timestamp
        \o Hunks_fmt(fd.hunks)

\* The file diffs of VersionDiff::try_from, parsed group by group.
RECURSIVE ParseFileDiffs(_, _, _)
RECURSIVE PushFileDiff(_, _, _, _)
PushFileDiff(groups, i, file_diffs, file_diff) ==
    IF file_diff.kind # "Ok" THEN file_diff
    ELSE ParseFileDiffs(groups, i + 1, Append(file_diffs, file_diff.value))

ParseFileDiffs(groups, i, file_diffs) ==
    IF i > Len(groups) THEN Ok(file_diffs)
    ELSE PushFileDiff(groups, i, file_diffs, FileDiff_try_from(groups[i]))

\* impl TryFrom<String> for VersionDiff
\* (a diff without file diffs is an error)
NonEmptyDiff(file_diffs) ==
    IF file_diffs.kind # "Ok" THEN file_diffs
    ELSE IF file_diffs.value = <<>> THEN DiffParseError
    ELSE file_diffs

VersionDiff_try_from(content) ==
    NonEmptyDiff(ParseFileDiffs(GroupLines(StrLines(content), DiffPrefix, 1, <<>>,
                                           <<>>), 1, <<>>))

\* impl Display for VersionDiff
RECURSIVE VersionDiff_fmt(_)
VersionDiff_fmt(file_diffs) ==
    IF file_diffs = <<>> THEN <<>>
    ELSE IF Len(file_diffs) = 1 THEN FileDiff_fmt(file_diffs[1])
    ELSE FileDiff_fmt(file_diffs[1]) \o <<NL>> \o VersionDiff_fmt(Tail(file_diffs))

\* ------------------------------------------------------------------ inputs
\* The artifacts of at most n lines, each line empty or one letter of L.
ArtifactsOver(L, n) ==
    UNION {[1..k -> {<<>>} \cup {<<c>> : c \in L}] : k \in 0..n}

\* The artifacts of the pipeline
Artifacts == ArtifactsOver(PipelineLetters, MaxLines)

\* The files the target path may hold: an artifact's text, with or without a
\* newline after its last line.
Disks == {Absent} \cup {File(to_string(A) \o e) : A \in Artifacts, e \in {<<>>, <<NL>>}}

\* The content of the change with the given id.
ChangeText(id) == IF id = 0 THEN <<"x">> ELSE IF id = 1 THEN <<"y">> ELSE <<"z">>

LineChangeTypes == {"Add", "Remove"}
FileChangeTypes == {"Create", "Remove", "Modify"}

\* The changes at position i (change id i - 1) of a patch
ChangesAt(i) ==
    {[line |-> ChangeText(i - 1), change_type |-> t, line_number |-> n,
      change_id |-> i - 1] : t \in LineChangeTypes, n \in 1..(MaxLines + 1)}

ChangeLists ==
    UNION {{cs \in [1..k -> UNION {ChangesAt(i) : i \in 1..k}] :
               \A i \in 1..k : cs[i].change_id = i - 1} : k \in 0..MaxChanges}

Patches == {[change_type |-> t, changes |-> cs] : t \in FileChangeTypes, cs \in ChangeLists}

\* The filters: a match offset is at most MaxLines + 1, the largest line number.
Filters == {[kind |-> "KeepAll", arg |-> 0]}
           \cup {[kind |-> "Distance", arg |-> d] : d \in 0..(MaxLines + 2)}

\* The InsideMatchFilters
InsideMatchFilters == {[kind |-> "InsideMatch", arg |-> k] : k \in 0..MaxDeepness}

\* The lines a generated diff is made of: the diff command, file headers with the
\* path and the timestamp separated by a tab or by a space, or without a timestamp,
\* location lines with and without a length, and hunk lines.
CommandLine == DiffPrefix \o <<"a", " ", "b">>
SourceHeaderTab == SourcePrefix \o <<"a", "\t", "t">>
SourceHeaders == {SourceHeaderTab, SourcePrefix \o <<"a", " ", "t">>,
                  SourcePrefix \o <<"a">>}
TargetHeaderTab == TargetPrefix \o <<"b", "\t", "t">>

LocationLine(l, r) == HunkPrefix \o <<"-">> \o l \o <<" ", "+">> \o r \o HunkSuffix
LocationTexts == {<<"1">>, <<"1", ",", "1">>, <<"2">>, <<"2", ",", "1">>}
\* The malformed location lines: without the end, without the sign of the target
\* location, with a start that is no number.
MalformedLocationLines ==
    {HunkPrefix \o <<"-", "1", " ", "+", "1">>,
     HunkPrefix \o <<"-", "1", " ", "1">> \o HunkSuffix,
     HunkPrefix \o <<"-", "x", " ", "+", "1">> \o HunkSuffix}
LocationLines == {LocationLine(l, l) : l \in LocationTexts} \cup MalformedLocationLines
HunkBodyLines == {<<" ", "c">>, <<"+", "c">>, <<"-", "c">>, EOFLine, <<"c">>}

\* The first lines of a diff: all three headers, or some of them missing or misplaced.
HeaderBlocks ==
    {<<CommandLine, h, TargetHeaderTab>> : h \in SourceHeaders}
        \cup {<<CommandLine, SourceHeaderTab, TargetPrefix \o <<"b">>>>,
              <<SourceHeaderTab, TargetHeaderTab>>,
              <<CommandLine, TargetHeaderTab, SourceHeaderTab>>,
              <<CommandLine, SourceHeaderTab>>, <<CommandLine>>, <<>>}

Bodies == UNION {[1..k -> LocationLines \cup HunkBodyLines] : k \in 0..MaxHunkLines}

\* A well-formed file diff that may follow the first one.
SecondFileDiff ==
    <<CommandLine, SourceHeaderTab, TargetHeaderTab,
      LocationLine(<<"3", ",", "2">>, <<"3", ",", "2">>), <<" ", "c">>, <<" ", "c">>>>

\* The file diffs that may follow the first one: none after any headers, one after
\* well-formed headers.
FollowingLines(h) ==
    IF h = <<CommandLine, SourceHeaderTab, TargetHeaderTab>>
    THEN {<<>>, SecondFileDiff} ELSE {<<>>}

\* The diff text of the lines: joined by newlines, with or without a final newline.
DiffText(lines, final_newline) ==
    to_string(lines) \o (IF final_newline THEN <<NL>> ELSE <<>>)

NoDiffResult == [kind |-> "none", value |-> <<>>]

EmptyMatching == [source_to_target |-> <<>>, target_to_source |-> <<>>]
EmptyPatch == [change_type |-> "Modify", changes |-> <<>>]
EmptyFiltered == [change_type |-> "Modify", changes |-> <<>>, rejected_changes |-> <<>>]
EmptyAligned == [changes |-> <<>>, rejected_changes |-> <<>>, target |-> <<>>,
                 change_type |-> "Modify"]
NoOutcome == [kind |-> "none", patched_file |-> <<>>, rejected_changes |-> <<>>,
              change_type |-> "Modify"]
NoFilter == [kind |-> "none", arg |-> 0]

VARIABLES pc, source, target, disk, matching, patch, filter, filtered, aligned,
          dryrun, outcome, fsops, diff_text, diff_result, rendered,
          source_dir, target_dir, file_index, log, reported, run_result,
          target_line_number, pending_changes, patched_lines, fuzzy

\* The variables of the diff parser and of the patch pipeline
diff_vars == <<diff_text, diff_result, rendered>>
patch_vars == <<source, target, disk, matching, patch, filter, filtered, aligned,
                dryrun, outcome, fsops>>

\* The variables of the driver apply_all: the files below the source and the target
\* directory, the number of the file diff being processed, the accesses to the
\* file system so far, the rejects reported so far, and the result of the run.
run_vars == <<source_dir, target_dir, file_index, log, reported, run_result>>

\* The variables of the loop of apply_file_modification: the number of the target
\* line being processed, the changes not yet taken from the peekable iterator, and
\* the lines pushed so far.
walk_vars == <<target_line_number, pending_changes, patched_lines>>

vars == <<pc, patch_vars, diff_vars, run_vars, walk_vars, fuzzy>>

\* No diff text is being parsed.
NoDiff == diff_text = <<>> /\ diff_result = NoDiffResult /\ rendered = <<>>

\* apply_all is not running.
NoRun ==
    /\ source_dir = <<>>
    /\ target_dir = <<>>
    /\ file_index = 0
    /\ log = <<>>
    /\ reported = <<>>
    /\ run_result = "none"

\* No fuzzy lookup has been made.
NoFuzzy == [line_number |-> 0, match_id |-> None, match_offset |-> 0, done |-> FALSE]

\* apply_file_modification is not running.
NoWalk == target_line_number = 0 /\ pending_changes = <<>> /\ patched_lines = <<>>

\* ------------------------------------------------------------------ lib.rs
\* The driver has read the source and the target of one file diff.
Init ==
    /\ pc = "read"
    /\ source \in Artifacts
    /\ disk \in Disks
    /\ target = read_or_create_empty(disk)
    /\ matching = EmptyMatching
    /\ patch = EmptyPatch
    /\ filter = NoFilter
    /\ filtered = EmptyFiltered
    /\ aligned = EmptyAligned
    /\ dryrun = FALSE
    /\ outcome = NoOutcome
    /\ fsops = <<>>
    /\ NoDiff
    /\ NoRun
    /\ NoWalk
    /\ fuzzy = NoFuzzy

MatchFiles ==
    /\ pc = "read"
    /\ matching' \in match_files(source, target)
    /\ pc' = "matched"
    /\ UNCHANGED <<source, target, disk, patch, filter, filtered, aligned, dryrun,
                   outcome, fsops, diff_vars, run_vars, walk_vars, fuzzy>>

\* Filter::apply_filter of a DistanceFilter or the KeepAllFilter among fs
ApplyFilterOf(fs) ==
    /\ pc = "matched"
    /\ \E p \in Patches, f \in fs :
          /\ patch' = p
          /\ filter' = f
          /\ filtered' = apply_filter(f, p, matching)
    /\ pc' = "filtered"
    /\ UNCHANGED <<source, target, disk, matching, aligned, dryrun, outcome, fsops,
                   diff_vars, run_vars, walk_vars, fuzzy>>

ApplyFilter == ApplyFilterOf(Filters)

AlignToTarget ==
    /\ pc = "matched"
    /\ \E p \in Patches :
          /\ patch' = p
          /\ aligned' = align_to_target(p, matching, target)
    /\ pc' = "aligned"
    /\ UNCHANGED <<source, target, disk, matching, filter, filtered, dryrun, outcome,
                   fsops, diff_vars, run_vars, walk_vars, fuzzy>>

ApplyPatch ==
    /\ pc = "aligned"
    /\ \E dry \in BOOLEAN :
          LET out == apply_patch(aligned, disk)
              ops == FileOps(aligned, disk, dry, out)
          IN /\ dryrun' = dry
             /\ outcome' = out
             /\ fsops' = ops
             /\ disk' = DiskAfter(disk, ops, out)
             /\ aligned' = IF RejectPatch(aligned, disk) THEN reject_all(aligned)
                           ELSE aligned
    /\ pc' = "applied"
    /\ UNCHANGED <<source, target, matching, patch, filter, filtered, diff_vars,
                   run_vars, walk_vars, fuzzy>>

\* match, align, apply: the pipeline of one file diff
Next == MatchFiles \/ AlignToTarget \/ ApplyPatch

Spec == Init /\ [][Next]_vars

\* The matcher alone, on two artifacts built with FileArtifact::from_lines.
InitMatch ==
    /\ pc = "read"
    /\ source \in ArtifactsOver(Letters, MaxMatchLines)
    /\ target \in ArtifactsOver(Letters, MaxMatchLines)
    /\ disk = File(to_string(target))
    /\ matching = EmptyMatching
    /\ patch = EmptyPatch
    /\ filter = NoFilter
    /\ filtered = EmptyFiltered
    /\ aligned = EmptyAligned
    /\ dryrun = FALSE
    /\ outcome = NoOutcome
    /\ fsops = <<>>
    /\ NoDiff
    /\ NoRun
    /\ NoWalk
    /\ fuzzy = NoFuzzy

SpecMatch == InitMatch /\ [][MatchFiles]_vars

\* Matching::target_index_fuzzy is called for a line number: of a source line, of
\* the place after the last one, or 0.
LookupFuzzy ==
    /\ pc = "matched"
    /\ \E n \in 0..(MaxMatchLines + 2) :
          LET r == target_index_fuzzy(matching, n)
          IN fuzzy' = [line_number |-> n, match_id |-> r[1], match_offset |-> r[2],
                       done |-> TRUE]
    /\ pc' = "looked_up"
    /\ UNCHANGED <<patch_vars, diff_vars, run_vars, walk_vars>>

\* match, look up
NextFuzzy == MatchFiles \/ LookupFuzzy

SpecFuzzy == InitMatch /\ [][NextFuzzy]_vars

\* match, filter
NextFilter == MatchFiles \/ ApplyFilter

SpecFilter == Init /\ [][NextFilter]_vars

\* InsideMatchFilter::apply_filter, in a build with or without overflow checks; a
\* panic ends it without a filtered patch.
ApplyInsideMatchFilterOf(fs) ==
    /\ pc = "matched"
    /\ \E p \in Patches, f \in fs, overflow_checks \in BOOLEAN :
          LET r == InsidePartition(f.arg, matching, p.changes, 1, <<>>, <<>>,
                                   overflow_checks)
          IN /\ patch' = p
             /\ filter' = f
             /\ filtered' = [change_type |-> p.change_type, changes |-> r[2],
                             rejected_changes |-> r[3]]
             /\ pc' = IF r[1] = "panic" THEN "filter_panic" ELSE "filtered"
    /\ UNCHANGED <<source, target, disk, matching, aligned, dryrun, outcome, fsops,
                   diff_vars, run_vars, walk_vars, fuzzy>>

ApplyInsideMatchFilter == ApplyInsideMatchFilterOf(InsideMatchFilters)

\* match, filter by InsideMatchFilter
NextInsideMatch == MatchFiles \/ ApplyInsideMatchFilter

SpecInsideMatch == Init /\ [][NextInsideMatch]_vars

\* One filter of each kind: KeepAllFilter, DistanceFilter::new(1) and
\* InsideMatchFilter::new(1)
FilterOfEachKind == ApplyFilterOf({f \in Filters : f.arg <= 1})
                       \/ ApplyInsideMatchFilterOf({f \in InsideMatchFilters : f.arg = 1})

\* match, then filter or align
NextConserve == MatchFiles \/ FilterOfEachKind \/ AlignToTarget

SpecConserve == Init /\ [][NextConserve]_vars

\* ------------------------------------------------------------------ diffs.rs: parse and render
\* A diff text has been read (VersionDiff::read).
InitDiff ==
    /\ pc = "diff_read"
    /\ \E h \in HeaderBlocks, b \in Bodies, e \in BOOLEAN :
          \E f \in FollowingLines(h) : diff_text = DiffText(h \o b \o f, e)
    /\ diff_result = NoDiffResult
    /\ rendered = <<>>
    /\ source = <<>>
    /\ target = <<>>
    /\ disk = Absent
    /\ matching = EmptyMatching
    /\ patch = EmptyPatch
    /\ filter = NoFilter
    /\ filtered = EmptyFiltered
    /\ aligned = EmptyAligned
    /\ dryrun = FALSE
    /\ outcome = NoOutcome
    /\ fsops = <<>>
    /\ NoRun
    /\ NoWalk
    /\ fuzzy = NoFuzzy

\* VersionDiff::try_from on the text
ParseDiff ==
    /\ pc = "diff_read"
    /\ diff_result' = VersionDiff_try_from(diff_text)
    /\ pc' = "diff_parsed"
    /\ UNCHANGED <<diff_text, rendered, patch_vars, run_vars, walk_vars, fuzzy>>

\* to_string() of the parsed VersionDiff
RenderDiff ==
    /\ pc = "diff_parsed"
    /\ diff_result.kind = "Ok"
    /\ rendered' = VersionDiff_fmt(diff_result.value)
    /\ pc' = "diff_rendered"
    /\ UNCHANGED <<diff_text, diff_result, patch_vars, run_vars, walk_vars, fuzzy>>

NextDiff == ParseDiff \/ RenderDiff

SpecDiff == InitDiff /\ [][NextDiff]_vars

\* ------------------------------------------------- application.rs: a creation, step by step
\* The Create patches
CreatePatches == {p \in Patches : p.change_type = "Create"}

\* The files another process may put under the target path.
OtherFiles == {File(<<"o">>), File(<<"o", NL>>)}

\* A Create patch has been aligned to the target that was read; the target
\* directory is open to other processes.
InitCreate ==
    /\ pc = "aligned"
    /\ disk \in Disks
    /\ target = read_or_create_empty(disk)
    /\ source = <<>>
    /\ matching = EmptyMatching
    /\ patch \in CreatePatches
    /\ aligned = align_to_target(patch, EmptyMatching, target)
    /\ dryrun \in BOOLEAN
    /\ filter = NoFilter
    /\ filtered = EmptyFiltered
    /\ outcome = NoOutcome
    /\ fsops = <<>>
    /\ NoDiff
    /\ NoRun
    /\ NoWalk
    /\ fuzzy = NoFuzzy

\* apply_patch up to the match on the change type: Path::exists of the target path;
\* an existing path rejects the whole patch.
CheckTarget ==
    /\ pc = "aligned"
    /\ IF RejectPatch(aligned, disk)
       THEN /\ outcome' = apply_patch(aligned, disk)
            /\ aligned' = reject_all(aligned)
            /\ pc' = "applied"
       ELSE /\ pc' = "checked"
            /\ UNCHANGED <<outcome, aligned>>
    /\ UNCHANGED <<source, target, disk, matching, patch, filter, filtered, dryrun,
                   fsops, diff_vars, run_vars, walk_vars, fuzzy>>

\* Another process creates a file under the target path after the check.
OtherProcessCreates ==
    /\ pc = "checked"
    /\ ~disk.exists
    /\ disk' \in OtherFiles
    /\ UNCHANGED <<pc, source, target, matching, patch, filter, filtered, aligned,
                   dryrun, outcome, fsops, diff_vars, run_vars, walk_vars, fuzzy>>

\* apply_file_creation: unless dryrun, fs::create_dir_all of the parent and
\* FileArtifact::write, which is fs::write: it creates the file or replaces the
\* content of an existing one.
CreateFile ==
    /\ pc = "checked"
    /\ outcome' = apply_file_creation(aligned)
    /\ fsops' = IF dryrun THEN <<>> ELSE <<"create_dir_all", "write">>
    /\ disk' = IF dryrun THEN disk ELSE File(to_string(outcome'.patched_file))
    /\ pc' = "applied"
    /\ UNCHANGED <<source, target, matching, patch, filter, filtered, aligned, dryrun,
                   diff_vars, run_vars, walk_vars, fuzzy>>

NextCreate == CheckTarget \/ OtherProcessCreates \/ CreateFile

SpecCreate == InitCreate /\ [][NextCreate]_vars

\* --------------------------------------------- application.rs: a modification, step by step
\* Target line n of a walked modification: n times the letter "a", so that the
\* lines of a target differ from each other and from the contents of the changes.
WalkLine(n) == [i \in 1..n |-> "a"]
WalkTargets == {[n \in 1..k |-> WalkLine(n)] : k \in 0..MaxWalkLines}

\* The content of the change with the given id: id + 1 times the letter "x".
WalkText(id) == [i \in 1..(id + 1) |-> "x"]

\* The aligned changes with id i - 1 for a target of len lines: anchored at 0, at a
\* target line, or one past the last line.
WalkChangesAt(i, len) ==
    {[line |-> WalkText(i - 1), change_type |-> t, line_number |-> n,
      change_id |-> i - 1] : t \in LineChangeTypes, n \in 0..(len + 1)}

\* The changes with the ids 0..k - 1 for a target of len lines, in the order of the ids.
WalkChangesById(k, len) ==
    {cs \in [1..k -> UNION {WalkChangesAt(i, len) : i \in 1..k}] :
        \A i \in 1..k : cs[i].change_id = i - 1}

\* The change lists align_to_target hands over: sorted (alignment.rs:59).
WalkChangeLists(len) ==
    UNION {{SortChanges(cs) : cs \in WalkChangesById(k, len)} : k \in 0..MaxWalkChanges}

\* apply_file_modification has been entered with a sorted aligned patch: the counter
\* is 1, no change is taken, no line is pushed.
InitWalk ==
    /\ pc = "modify"
    /\ \E t \in WalkTargets : \E cs \in WalkChangeLists(Len(t)) :
          /\ target = t
          /\ aligned = [changes |-> cs, rejected_changes |-> <<>>, target |-> t,
                        change_type |-> "Modify"]
          /\ pending_changes = cs
    /\ source = <<>>
    /\ disk = File(to_string(target))
    /\ matching = EmptyMatching
    /\ patch = EmptyPatch
    /\ filter = NoFilter
    /\ filtered = EmptyFiltered
    /\ dryrun \in BOOLEAN
    /\ outcome = NoOutcome
    /\ fsops = <<>>
    /\ target_line_number = 1
    /\ patched_lines = <<>>
    /\ fuzzy = NoFuzzy
    /\ NoDiff
    /\ NoRun

\* The loop over the lines has a current line.
InLinesLoop == pc = "modify" /\ target_line_number <= Len(aligned.target)

\* The condition of the while loop: changes.peek() is a change eligible at the
\* current line.
PeekEligible ==
    pending_changes # <<>> /\ Eligible(Head(pending_changes), target_line_number)

\* The while loop takes an Add and pushes its line.
TakeAdd ==
    /\ InLinesLoop
    /\ PeekEligible
    /\ Head(pending_changes).change_type = "Add"
    /\ patched_lines' = Append(patched_lines, Head(pending_changes).line)
    /\ pending_changes' = Tail(pending_changes)
    /\ UNCHANGED <<pc, target_line_number, patch_vars, diff_vars, run_vars, fuzzy>>

\* TakeRemove that pushes the current line all the same.
TakeRemovePushingLine ==
    /\ InLinesLoop
    /\ PeekEligible
    /\ Head(pending_changes).change_type = "Remove"
    /\ pending_changes' = Tail(pending_changes)
    /\ target_line_number' = target_line_number + 1
    /\ patched_lines' = Append(patched_lines, aligned.target[target_line_number])
    /\ UNCHANGED <<pc, patch_vars, diff_vars, run_vars, fuzzy>>

\* The while loop takes a Remove: the current line is skipped (continue 'lines_loop).
TakeRemove ==
    /\ InLinesLoop
    /\ PeekEligible
    /\ Head(pending_changes).change_type = "Remove"
    /\ pending_changes' = Tail(pending_changes)
    /\ target_line_number' = target_line_number + 1
    /\ UNCHANGED <<pc, patched_lines, patch_vars, diff_vars, run_vars, fuzzy>>

\* No change is eligible: the current line is pushed.
PushLine ==
    /\ InLinesLoop
    /\ ~PeekEligible
    /\ patched_lines' = Append(patched_lines, aligned.target[target_line_number])
    /\ target_line_number' = target_line_number + 1
    /\ UNCHANGED <<pc, pending_changes, patch_vars, diff_vars, run_vars, fuzzy>>

\* RemainingChange that takes a remaining Add without pushing its line.
RemainingChangeDiscarded ==
    /\ pc = "modify"
    /\ target_line_number > Len(aligned.target)
    /\ pending_changes # <<>>
    /\ IF Head(pending_changes).change_type = "Add"
       THEN /\ patched_lines' = patched_lines
            /\ pending_changes' = Tail(pending_changes)
            /\ UNCHANGED <<pc, outcome>>
       ELSE /\ pc' = "modify_panic"
            /\ outcome' = [kind |-> "panic", patched_file |-> <<>>,
                           rejected_changes |-> <<>>, change_type |-> aligned.change_type]
            /\ UNCHANGED <<patched_lines, pending_changes>>
    /\ UNCHANGED <<target_line_number, source, target, disk, matching, patch, filter,
                   filtered, aligned, dryrun, fsops, diff_vars, run_vars, fuzzy>>

\* After the last line: a remaining Add is pushed, a remaining Remove panics.
RemainingChange ==
    /\ pc = "modify"
    /\ target_line_number > Len(aligned.target)
    /\ pending_changes # <<>>
    /\ IF Head(pending_changes).change_type = "Add"
       THEN /\ patched_lines' = Append(patched_lines, Head(pending_changes).line)
            /\ pending_changes' = Tail(pending_changes)
            /\ UNCHANGED <<pc, outcome>>
       ELSE /\ pc' = "modify_panic"
            /\ outcome' = [kind |-> "panic", patched_file |-> <<>>,
                           rejected_changes |-> <<>>, change_type |-> aligned.change_type]
            /\ UNCHANGED <<patched_lines, pending_changes>>
    /\ UNCHANGED <<target_line_number, source, target, disk, matching, patch, filter,
                   filtered, aligned, dryrun, fsops, diff_vars, run_vars, fuzzy>>

\* No change remains: the patched file is written unless dryrun, and returned.
ReturnOutcome ==
    /\ pc = "modify"
    /\ target_line_number > Len(aligned.target)
    /\ pending_changes = <<>>
    /\ outcome' = [kind |-> "Ok", patched_file |-> patched_lines,
                   rejected_changes |-> aligned.rejected_changes,
                   change_type |-> aligned.change_type]
    /\ fsops' = IF dryrun THEN <<>> ELSE <<"write">>
    /\ disk' = IF dryrun THEN disk ELSE File(to_string(patched_lines))
    /\ pc' = "modified"
    /\ UNCHANGED <<source, target, matching, patch, filter, filtered, aligned, dryrun,
                   diff_vars, run_vars, walk_vars, fuzzy>>

NextWalk == TakeAdd \/ TakeRemove \/ PushLine \/ RemainingChange \/ ReturnOutcome

SpecWalk == InitWalk /\ [][NextWalk]_vars

\* ------------------------------------------------------------------ io.rs: read and render
\* The texts of at most MaxTextLen characters, each the letter a or a newline.
FileTexts == UNION {[1..k -> {"a", NL}] : k \in 0..MaxTextLen}

\* A file with some text exists.
InitFile ==
    /\ pc = "file"
    /\ disk \in {File(t) : t \in FileTexts}
    /\ source = <<>>
    /\ target = <<>>
    /\ matching = EmptyMatching
    /\ patch = EmptyPatch
    /\ filter = NoFilter
    /\ filtered = EmptyFiltered
    /\ aligned = EmptyAligned
    /\ dryrun = FALSE
    /\ outcome = NoOutcome
    /\ fsops = <<>>
    /\ NoDiff
    /\ NoRun
    /\ NoWalk
    /\ fuzzy = NoFuzzy

\* FileArtifact::read: parse_content of the text of the file
ReadFile ==
    /\ pc = "file"
    /\ target' = parse_content(disk.bytes)
    /\ pc' = "file_read"
    /\ UNCHANGED <<source, disk, matching, patch, filter, filtered, aligned, dryrun,
                   outcome, fsops, diff_vars, run_vars, walk_vars, fuzzy>>

\* self.to_string() of FileArtifact::write
RenderFile ==
    /\ pc = "file_read"
    /\ rendered' = to_string(target)
    /\ pc' = "file_rendered"
    /\ UNCHANGED <<diff_text, diff_result, patch_vars, run_vars, walk_vars, fuzzy>>

NextFile == ReadFile \/ RenderFile

SpecFile == InitFile /\ [][NextFile]_vars

\* ------------------------------------------------------------------ diffs.rs: one hunk
\* The location lines of the generated hunks: the starts 0, 1 and 2, with and
\* without a length, in the source and in the target.
HunkStartTexts == {<<"0", ",", "0">>, <<"1">>, <<"2", ",", "3">>}
HunkLocationLines == {LocationLine(l, r) : l \in HunkStartTexts, r \in HunkStartTexts}

\* The lines after the location line: context, added and removed lines, EOF markers
HunkBodies ==
    UNION {[1..k -> {<<" ", "c">>, <<"+", "c">>, <<"-", "c">>, EOFLine}] :
              k \in 0..MaxHunkBody}

\* The lines of one hunk have been collected by FileDiff::try_from.
InitHunk ==
    /\ pc = "hunk_read"
    /\ \E l \in HunkLocationLines, b \in HunkBodies : diff_text = to_string(<<l>> \o b)
    /\ diff_result = NoDiffResult
    /\ rendered = <<>>
    /\ source = <<>>
    /\ target = <<>>
    /\ disk = Absent
    /\ matching = EmptyMatching
    /\ patch = EmptyPatch
    /\ filter = NoFilter
    /\ filtered = EmptyFiltered
    /\ aligned = EmptyAligned
    /\ dryrun = FALSE
    /\ outcome = NoOutcome
    /\ fsops = <<>>
    /\ NoRun
    /\ NoWalk
    /\ fuzzy = NoFuzzy

\* Hunk::try_from on the lines
ParseHunk ==
    /\ pc = "hunk_read"
    /\ diff_result' = Hunk_try_from(StrLines(diff_text))
    /\ pc' = "hunk_parsed"
    /\ UNCHANGED <<diff_text, rendered, patch_vars, run_vars, walk_vars, fuzzy>>

SpecHunk == InitHunk /\ [][ParseHunk]_vars

\* ------------------------------------------------------------------ patch.rs: FilePatch::from
\* The lines of all hunks, in order (flat_map(|h| h.lines))
RECURSIVE HunkLinesOf(_)
HunkLinesOf(hunks) ==
    IF hunks = <<>> THEN <<>> ELSE hunks[1].lines \o HunkLinesOf(Tail(hunks))

\* into_changes: the Add and Remove lines of all hunks
into_changes(file_diff) ==
    SelectSeq(HunkLinesOf(file_diff.hunks),
              LAMBDA l : l.line_type = "Add" \/ l.line_type = "Remove")

\* The change type of a patch, by the first hunk: a start of 0 says that the file
\* does not exist in the source or in the target.
FileChangeTypeOf(first_hunk) ==
    IF first_hunk.source_location.hunk_start = 0 THEN "Create"
    ELSE IF first_hunk.target_location.hunk_start = 0 THEN "Remove"
    ELSE "Modify"

\* FilePatch_from with the line numbers taken from the target side of the hunk lines.
FilePatch_from_target_side(file_diff) ==
    IF file_diff.hunks = <<>> THEN Panic
    ELSE LET lines == into_changes(file_diff)
         IN Ok([change_type |-> FileChangeTypeOf(file_diff.hunks[1]),
                changes |-> [i \in 1..Len(lines) |->
                                [line |-> Tail(lines[i].line),
                                 change_type |-> lines[i].line_type,
                                 line_number |-> lines[i].target_line.value,
                                 change_id |-> i - 1]]])


\* impl From<FileDiff> for FilePatch; a file diff without a hunk panics. An Add line
\* has a ChangeLocation in the source, a Remove line a RealLocation; the text of a
\* change is the line without its first character (into_original_text).
FilePatch_from(file_diff) ==
    IF file_diff.hunks = <<>> THEN Panic
    ELSE LET lines == into_changes(file_diff)
         IN Ok([change_type |-> FileChangeTypeOf(file_diff.hunks[1]),
                changes |-> [i \in 1..Len(lines) |->
                                [line |-> Tail(lines[i].line),
                                 change_type |-> lines[i].line_type,
                                 line_number |-> lines[i].source_line.value,
                                 change_id |-> i - 1]]])

\* The file diffs a patch is derived from: the headers, a first hunk at the start
\* of an existing, a new or a removed file or further down, with context, added,
\* removed and EOF lines, and no or one more hunk.
FirstLocationLines ==
    {LocationLine(<<"1", ",", "2">>, <<"1", ",", "2">>), LocationLine(<<"0", ",", "0">>, <<"1">>),
     LocationLine(<<"1">>, <<"0", ",", "0">>), LocationLine(<<"3">>, <<"4">>)}
PatchBodies ==
    UNION {[1..k -> {<<" ", "c">>, <<"+", "d">>, <<"-", "e">>, <<"+">>, EOFLine}] :
              k \in 0..MaxPatchBody}
SecondHunks ==
    {<<>>,
     <<LocationLine(<<"7">>, <<"8">>), <<"+", "f">>>>,
     <<LocationLine(<<"7", ",", "2">>, <<"8", ",", "2">>), <<"-", "g">>, <<" ", "c">>,
       <<"+", "f">>>>,
     <<LocationLine(<<"7">>, <<"7">>), <<" ", "c">>, EOFLine>>}
PatchDiffs ==
    {to_string(<<CommandLine, SourceHeaderTab, TargetHeaderTab, l>> \o b \o h) :
        l \in FirstLocationLines, b \in PatchBodies, h \in SecondHunks}
        \cup {to_string(<<CommandLine, SourceHeaderTab, TargetHeaderTab>>)}

\* A diff text of one file diff has been read.
InitPatch ==
    /\ pc = "diff_read"
    /\ diff_text \in PatchDiffs
    /\ diff_result = NoDiffResult
    /\ rendered = <<>>
    /\ source = <<>>
    /\ target = <<>>
    /\ disk = Absent
    /\ matching = EmptyMatching
    /\ patch = EmptyPatch
    /\ filter = NoFilter
    /\ filtered = EmptyFiltered
    /\ aligned = EmptyAligned
    /\ dryrun = FALSE
    /\ outcome = NoOutcome
    /\ fsops = <<>>
    /\ NoRun
    /\ NoWalk
    /\ fuzzy = NoFuzzy

\* FilePatch::from(file_diff) for the file diff of the parsed diff
DerivePatch ==
    /\ pc = "diff_parsed"
    /\ diff_result.kind = "Ok"
    /\ LET p == FilePatch_from(diff_result.value[1])
       IN IF p.kind = "Ok"
          THEN patch' = p.value /\ pc' = "derived"
          ELSE patch' = patch /\ pc' = "derive_panic"
    /\ UNCHANGED <<source, target, disk, matching, filter, filtered, aligned, dryrun,
                   outcome, fsops, diff_vars, run_vars, walk_vars, fuzzy>>

\* parse, derive the patch
NextPatch == ParseDiff \/ DerivePatch

SpecPatch == InitPatch /\ [][NextPatch]_vars

\* ------------------------------------------------------------------ lib.rs: apply_all
\* The paths of the generated file diffs, relative to the source and the target
\* directory.
Paths == {<<"p">>, <<"q">>}

\* The headers of a generated file diff of the path
RunHeader(path) ==
    <<DiffPrefix \o path \o <<" ">> \o path, SourcePrefix \o path \o <<"\t", "t">>,
      TargetPrefix \o path \o <<"\t", "t">>>>

\* The hunks of a generated file diff: a modification of the file with the lines a
\* and b, a creation, a removal, no hunk at all, a line without a marker, and a
\* location line without its end.
RunBodies ==
    {<<LocationLine(<<"1", ",", "2">>, <<"1", ",", "2">>), <<" ", "a">>, <<"-", "b">>,
       <<"+", "c">>>>,
     <<LocationLine(<<"0", ",", "0">>, <<"1">>), <<"+", "c">>>>,
     <<LocationLine(<<"1">>, <<"0", ",", "0">>), <<"-", "a">>>>,
     <<>>,
     <<LocationLine(<<"1">>, <<"1">>), <<"c">>>>,
     <<HunkPrefix \o <<"-", "1", " ", "+", "1">>, <<" ", "a">>>>}

RunFileDiffs == {RunHeader(path) \o b : path \in Paths, b \in RunBodies}

\* The lines of n file diffs
RECURSIVE Concat(_)
Concat(seqs) == IF seqs = <<>> THEN <<>> ELSE seqs[1] \o Concat(Tail(seqs))

\* The generated diffs: the empty text, and up to MaxFileDiffs file diffs
RunDiffs ==
    {DiffText(Concat(fds), TRUE) :
        fds \in UNION {[1..k -> RunFileDiffs] : k \in 0..MaxFileDiffs}}

\* The source directory holds the file with the lines a and b under both paths, or
\* no file; the target directory holds that file or no file under either path.
SourceFiles == {Absent, File(<<"a", NL, "b", NL>>)}
TargetFiles == {Absent, File(<<"a", NL, "b", NL>>)}
SourceDirs == {[path \in Paths |-> f] : f \in SourceFiles}
TargetDirs == [Paths -> TargetFiles]

\* The file diff apply_all is at
CurrentFileDiff == diff_result.value[file_index]

\* An access to the file system
Access(op, path) == [op |-> op, path |-> path]

\* apply_all has been called with a diff, a source and a target directory.
InitAll ==
    /\ pc = "start"
    /\ diff_text \in RunDiffs
    /\ diff_result = NoDiffResult
    /\ rendered = <<>>
    /\ source_dir \in SourceDirs
    /\ target_dir \in TargetDirs
    /\ dryrun \in BOOLEAN
    /\ file_index = 0
    /\ log = <<>>
    /\ reported = <<>>
    /\ run_result = "running"
    /\ source = <<>>
    /\ target = <<>>
    /\ disk = Absent
    /\ matching = EmptyMatching
    /\ patch = EmptyPatch
    /\ filter = NoFilter
    /\ filtered = EmptyFiltered
    /\ aligned = EmptyAligned
    /\ outcome = NoOutcome
    /\ fsops = <<>>
    /\ NoWalk
    /\ fuzzy = NoFuzzy

\* ReadDiff that goes on to return Ok(()) when the diff cannot be parsed.
ReadDiffErrorDropped ==
    /\ pc = "start"
    /\ LET r == VersionDiff_try_from(diff_text)
       IN /\ diff_result' = r
          /\ IF r.kind = "Ok"
             THEN /\ pc' = "file_diff"
                  /\ file_index' = 1
                  /\ run_result' = run_result
             ELSE /\ pc' = "done"
                  /\ file_index' = file_index
                  /\ run_result' = "Ok"
    /\ UNCHANGED <<diff_text, rendered, patch_vars, source_dir, target_dir, log,
                   reported, walk_vars, fuzzy>>

\* VersionDiff::read(patch_file_path)?: the whole diff is parsed before the loop; an
\* error is returned, a panic ends the run.
ReadDiff ==
    /\ pc = "start"
    /\ LET r == VersionDiff_try_from(diff_text)
       IN /\ diff_result' = r
          /\ IF r.kind = "Ok"
             THEN /\ pc' = "file_diff"
                  /\ file_index' = 1
                  /\ run_result' = run_result
             ELSE /\ pc' = "done"
                  /\ file_index' = file_index
                  /\ run_result' = r.kind
    /\ UNCHANGED <<diff_text, rendered, patch_vars, source_dir, target_dir, log,
                   reported, walk_vars, fuzzy>>

\* The head of the loop: read_or_create_empty of the source and of the target file
ReadFiles ==
    /\ pc = "file_diff"
    /\ LET source_path == CurrentFileDiff.source_file_header.path
           target_path == CurrentFileDiff.target_file_header.path
       IN /\ source' = read_or_create_empty(source_dir[source_path])
          /\ disk' = target_dir[target_path]
          /\ target' = read_or_create_empty(target_dir[target_path])
          /\ log' = log \o <<Access("read", <<"source", source_path>>),
                              Access("read", <<"target", target_path>>)>>
    /\ pc' = "read"
    /\ UNCHANGED <<matching, patch, filter, filtered, aligned, dryrun, outcome, fsops,
                   diff_vars, source_dir, target_dir, file_index, reported,
                   run_result, walk_vars, fuzzy>>

\* FilePatch::from(file_diff) and align_to_target
AlignFileDiff ==
    /\ pc = "matched"
    /\ run_result = "running"
    /\ LET p == FilePatch_from(CurrentFileDiff)
       IN IF p.kind = "Ok"
          THEN /\ patch' = p.value
               /\ aligned' = align_to_target(p.value, matching, target)
               /\ pc' = "aligned"
               /\ run_result' = run_result
          ELSE /\ pc' = "done"
               /\ run_result' = "panic"
               /\ UNCHANGED <<patch, aligned>>
    /\ UNCHANGED <<source, target, disk, matching, filter, filtered, dryrun, outcome,
                   fsops, diff_vars, source_dir, target_dir, file_index, log,
                   reported, walk_vars, fuzzy>>

\* apply_patch(aligned_patch, dryrun)?
ApplyAligned ==
    /\ pc = "aligned"
    /\ run_result = "running"
    /\ LET target_path == CurrentFileDiff.target_file_header.path
           out == apply_patch(aligned, disk)
           ops == FileOps(aligned, disk, dryrun, out)
           after == DiskAfter(disk, ops, out)
       IN /\ outcome' = out
          /\ fsops' = ops
          /\ disk' = after
          /\ target_dir' = [target_dir EXCEPT ![target_path] = after]
          /\ log' = log \o [i \in 1..Len(ops) |-> Access(ops[i], <<"target", target_path>>)]
          /\ aligned' = IF RejectPatch(aligned, disk) THEN reject_all(aligned)
                        ELSE aligned
          /\ IF out.kind = "Ok"
             THEN pc' = "applied" /\ run_result' = run_result
             ELSE pc' = "done" /\ run_result' = out.kind
    /\ UNCHANGED <<source, target, matching, patch, filter, filtered, dryrun,
                   diff_vars, source_dir, file_index, reported, walk_vars, fuzzy>>

\* ReportRejects that ends the run at the first file diff with rejects.
ReportRejectsStopping ==
    /\ pc = "applied"
    /\ reported' = IF outcome.rejected_changes # <<>>
                   THEN Append(reported, [file_diff |-> file_index,
                                          rejects |-> outcome.rejected_changes])
                   ELSE reported
    /\ IF file_index < Len(diff_result.value) /\ outcome.rejected_changes = <<>>
       THEN /\ file_index' = file_index + 1
            /\ pc' = "file_diff"
            /\ run_result' = run_result
       ELSE /\ file_index' = file_index
            /\ pc' = "done"
            /\ run_result' = "Ok"
    /\ UNCHANGED <<patch_vars, diff_vars, source_dir, target_dir, log, walk_vars, fuzzy>>

\* The end of the loop body: the rejects of the file diff are printed or written
\* when there are any; after the last file diff apply_all returns Ok(()).
ReportRejects ==
    /\ pc = "applied"
    /\ reported' = IF outcome.rejected_changes # <<>>
                   THEN Append(reported, [file_diff |-> file_index,
                                          rejects |-> outcome.rejected_changes])
                   ELSE reported
    /\ IF file_index < Len(diff_result.value)
       THEN /\ file_index' = file_index + 1
            /\ pc' = "file_diff"
            /\ run_result' = run_result
       ELSE /\ file_index' = file_index
            /\ pc' = "done"
            /\ run_result' = "Ok"
    /\ UNCHANGED <<patch_vars, diff_vars, source_dir, target_dir, log, walk_vars, fuzzy>>

NextAll == ReadDiff \/ ReadFiles \/ MatchFiles \/ AlignFileDiff \/ ApplyAligned
              \/ ReportRejects

SpecAll == InitAll /\ [][NextAll]_vars

\* ------------------------------------------------------------------ properties
Range(s) == {s[i] : i \in 1..Len(s)}

\* Source line n has a concrete match in the target.
HasMatch(n) ==
    /\ n >= 1
    /\ n <= Len(matching.source_to_target)
    /\ IsSome(matching.source_to_target[n])

\* The target line number matched to source line n.
MatchOf(n) == matching.source_to_target[n][1] + 1

\* The patch is aligned change by change (it is no Create).
AlignedByMatching == pc = "aligned" /\ patch.change_type \in {"Remove", "Modify"}

\* C1: a Remove whose source line has no exact match in the target is rejected and
\* never aligned; an aligned Remove sits on the exact match of its source line.
C1_RemovalStrictness ==
    AlignedByMatching =>
        /\ \A i \in 1..Len(patch.changes) :
              LET c == patch.changes[i]
              IN (c.change_type = "Remove" /\ ~HasMatch(c.line_number)) =>
                    /\ c \in Range(aligned.rejected_changes)
                    /\ \A k \in 1..Len(aligned.changes) :
                          aligned.changes[k].change_id # c.change_id
        /\ \A k \in 1..Len(aligned.changes) :
              LET d == aligned.changes[k]
                  o == patch.changes[d.change_id + 1]
              IN d.change_type = "Remove" =>
                    HasMatch(o.line_number) /\ d.line_number = MatchOf(o.line_number)

\* An unmatched Remove below a matched line (the fuzzy lookup would anchor it) is
\* among the rejects.
C1_Witness ==
    /\ AlignedByMatching
    /\ \E i \in 1..Len(patch.changes) :
          LET c == patch.changes[i]
          IN /\ c.change_type = "Remove"
             /\ ~HasMatch(c.line_number)
             /\ \E n \in 1..c.line_number : HasMatch(n)
             /\ c \in Range(aligned.rejected_changes)

\* The anchor of an Add at source line n: the match of n; one past the match of the
\* closest matched line above n; 0 when no line at or above n is matched.
AnchorOf(n) ==
    LET above == {m \in 1..n : HasMatch(m)}
    IN IF above = {} THEN 0
       ELSE IF n \in above THEN MatchOf(n)
       ELSE MatchOf(SetMax(above)) + 1

\* C2: the aligner rejects no Add: the rejects are Removes, and every Add is among
\* the aligned changes, at the anchor of its source line, which is 0 when no source
\* line at or above it is matched.
C2_AddsNeverRejected ==
    AlignedByMatching =>
        /\ \A k \in 1..Len(aligned.rejected_changes) :
              aligned.rejected_changes[k].change_type = "Remove"
        /\ \A i \in 1..Len(patch.changes) :
              LET c == patch.changes[i]
              IN c.change_type = "Add" =>
                    \E k \in 1..Len(aligned.changes) :
                       /\ aligned.changes[k].change_id = c.change_id
                       /\ aligned.changes[k].change_type = "Add"
                       /\ aligned.changes[k].line_number = AnchorOf(c.line_number)

\* An Add without a matched line at or above it is aligned to line 0.
C2_Witness ==
    /\ AlignedByMatching
    /\ \E i \in 1..Len(patch.changes) :
          LET c == patch.changes[i]
          IN /\ c.change_type = "Add"
             /\ ~\E n \in 1..c.line_number : HasMatch(n)
             /\ \E k \in 1..Len(aligned.changes) :
                   /\ aligned.changes[k].change_id = c.change_id
                   /\ aligned.changes[k].line_number = 0

\* c comes before d or is d, by (line number, Remove before Add, change id).
KeyLeq(c, d) ==
    \/ c.line_number < d.line_number
    \/ c.line_number = d.line_number /\ c.change_type = "Remove" /\ d.change_type = "Add"
    \/ c.line_number = d.line_number /\ c.change_type = d.change_type
                                     /\ c.change_id <= d.change_id

\* C3: the aligned changes are sorted by (target line, Remove before Add, change id).
C3_AlignedSorted ==
    AlignedByMatching =>
        \A i \in 1..Len(aligned.changes) : \A j \in i..Len(aligned.changes) :
            KeyLeq(aligned.changes[i], aligned.changes[j])

\* The aligned changes are not in the order of the patch: the sort moved a change.
C3_Witness ==
    /\ AlignedByMatching
    /\ \E i \in 1..Len(aligned.changes) : \E j \in (i + 1)..Len(aligned.changes) :
          aligned.changes[i].change_id > aligned.changes[j].change_id

\* The step that applies a patch whose precondition is violated.
RejectingStep == pc = "aligned" /\ pc' = "applied" /\ RejectPatch(aligned, disk)

\* C4: a patch whose precondition is violated has all its changes, aligned and
\* rejected, among the outcome's rejects, sorted by line number; its change list is
\* emptied, no file operation happens, the target and the change type are returned.
C4_PreconditionViolation ==
    [][RejectingStep =>
          /\ outcome'.kind = "Ok"
          /\ Len(outcome'.rejected_changes)
                = Len(aligned.changes) + Len(aligned.rejected_changes)
          /\ \A c \in Range(aligned.changes) \cup Range(aligned.rejected_changes) :
                Cardinality({k \in 1..Len(outcome'.rejected_changes) :
                                outcome'.rejected_changes[k] = c}) = 1
          /\ \A i \in 1..Len(outcome'.rejected_changes) :
                \A j \in i..Len(outcome'.rejected_changes) :
                   outcome'.rejected_changes[i].line_number
                      <= outcome'.rejected_changes[j].line_number
          /\ aligned'.changes = <<>>
          /\ aligned'.rejected_changes = outcome'.rejected_changes
          /\ fsops' = <<>>
          /\ disk' = disk
          /\ outcome'.patched_file = target
          /\ outcome'.change_type = patch.change_type]_vars

\* A Modify patch was applied to an absent target without dryrun: an aligned Add and
\* a Remove rejected by the aligner are both among the outcome's rejects.
C4_Witness ==
    /\ pc = "applied"
    /\ ~dryrun
    /\ patch.change_type = "Modify"
    /\ ~disk.exists
    /\ fsops = <<>>
    /\ \E c, d \in Range(outcome.rejected_changes) :
          c.change_type = "Add" /\ d.change_type = "Remove"

\* C5: a dry run performs no file operation and leaves the target path as it was.
C5_DryRunFrame ==
    [][(pc = "aligned" /\ pc' = "applied" /\ dryrun') =>
          (fsops' = <<>> /\ disk' = disk)]_vars

\* A dry run of a patch of the given type that met its precondition.
DryRunOf(t) ==
    /\ pc = "applied"
    /\ dryrun
    /\ outcome.kind = "Ok"
    /\ patch.change_type = t
    /\ disk.exists = (t # "Create")

\* Dry runs of a Modify that changes the lines, of a Create and of a Remove happened.
C5_Witness ==
    \/ DryRunOf("Modify") /\ outcome.patched_file # target
    \/ DryRunOf("Remove") /\ target # <<>>
    \/ DryRunOf("Create") /\ outcome.patched_file # <<>>

\* A Remove that the walk over the target lines cannot consume: it is aligned to a
\* line that an earlier Remove takes, or to a line past the end of the target.
PendingRemove(p) ==
    LET w == LinesLoop(p.target, p.changes, 1, 1, <<>>)
    IN \E k \in w[1]..Len(p.changes) : p.changes[k].change_type = "Remove"

\* The step that applies a Modify patch, precondition met, with a pending Remove.
PendingRemoveStep ==
    /\ pc = "aligned"
    /\ pc' = "applied"
    /\ ~RejectPatch(aligned, disk)
    /\ aligned.change_type = "Modify"
    /\ PendingRemove(aligned)

\* C6 as stated: a pending Remove makes the application return a PatchError.
C6_PendingRemoveReturnsPatchError ==
    [][PendingRemoveStep => outcome'.kind = "PatchError"]_vars

\* C6: a pending Remove makes the application panic, with no file operation done;
\* no PatchError is returned.
C6_PendingRemovePanics ==
    [][PendingRemoveStep =>
          /\ outcome'.kind = "panic"
          /\ fsops' = <<>>
          /\ disk' = disk]_vars

\* Two Removes of one matched source line were applied without dryrun: the second is
\* pending and the application panicked.
C6_Witness ==
    /\ pc = "applied"
    /\ ~dryrun
    /\ outcome.kind = "panic"
    /\ Len(aligned.changes) >= 2
    /\ \E i \in 1..Len(aligned.changes) : \E j \in (i + 1)..Len(aligned.changes) :
          /\ aligned.changes[i].change_type = "Remove"
          /\ aligned.changes[j].change_type = "Remove"
          /\ aligned.changes[i].line_number = aligned.changes[j].line_number

\* C7: target_index(i) is the concrete match j exactly if source_index(j) is the
\* concrete match i, for all line numbers of the two files and one past them.
C7_MatchingSymmetry ==
    pc = "matched" =>
        \A i \in 1..(Len(source) + 1) : \A j \in 1..(Len(target) + 1) :
            (target_index(matching, i) = Some(Some(j)))
               <=> (source_index(matching, j) = Some(Some(i)))

\* Two files of different lengths were matched, both end with a newline, and the
\* lines after their last newline are matched to each other.
C7_Witness ==
    /\ pc = "matched"
    /\ Len(source) # Len(target)
    /\ Len(source) >= 2
    /\ Len(target) >= 2
    /\ source[Len(source)] = <<>>
    /\ target[Len(target)] = <<>>
    /\ target_index(matching, Len(source)) = Some(Some(Len(target)))
    /\ source_index(matching, Len(target)) = Some(Some(Len(source)))

\* C8 as stated: a file matched with itself has every line matched to itself.
C8_SelfMatching ==
    (pc = "matched" /\ source = target) =>
        \A i \in 1..Len(source) :
            /\ target_index(matching, i) = Some(Some(i))
            /\ source_index(matching, i) = Some(Some(i))

\* The distance of source line n to the closest matched source line at or above it;
\* n itself when there is none.
OffsetOf(n) ==
    IF \E m \in 1..n : HasMatch(m)
    THEN n - SetMax({m \in 1..n : HasMatch(m)})
    ELSE n

\* C10: the distance filter with distance d keeps every Remove, and keeps an Add
\* exactly if its offset to the closest matched line above it is less than d.
C10_DistanceFilter ==
    (pc = "filtered" /\ filter.kind = "Distance") =>
        /\ \A i \in 1..Len(patch.changes) :
              LET c == patch.changes[i]
              IN /\ (c \in Range(filtered.changes))
                       <=> (c.change_type = "Remove" \/ OffsetOf(c.line_number) < filter.arg)
                 /\ (c \in Range(filtered.rejected_changes))
                       <=> ~(c \in Range(filtered.changes))
        /\ Len(filtered.changes) + Len(filtered.rejected_changes) = Len(patch.changes)

\* A distance filter rejected an Add whose offset is the distance and kept an Add
\* at an offset greater than 0.
C10_Witness ==
    /\ pc = "filtered"
    /\ filter.kind = "Distance"
    /\ \E c \in Range(filtered.rejected_changes) :
          c.change_type = "Add" /\ OffsetOf(c.line_number) = filter.arg
    /\ \E c \in Range(filtered.changes) :
          c.change_type = "Add" /\ OffsetOf(c.line_number) > 0

\* A text without its final newline, if it has one.
WithoutFinalNewline(t) ==
    IF Len(t) > 0 /\ t[Len(t)] = NL THEN SubSeq(t, 1, Len(t) - 1) ELSE t

\* C9 as stated: the rendering of a parsed diff is the diff text, up to one newline
\* at the end.
C9_DiffRoundTrip ==
    pc = "diff_rendered" =>
        WithoutFinalNewline(rendered) = WithoutFinalNewline(diff_text)

\* The k source lines above and the k source lines below line n all have a
\* concrete match in the target.
InsideMatchOf(k, n) == \A j \in 1..k : HasMatch(n - j) /\ HasMatch(n + j)

\* C11: InsideMatchFilter(k) keeps an Add iff the k source lines immediately above
\* and the k source lines immediately below its line are all matched to a target
\* line, and keeps a Remove iff its own source line has a concrete target match.
C11_InsideMatchFilter ==
    (pc = "filtered" /\ filter.kind = "InsideMatch") =>
        \A i \in 1..Len(patch.changes) :
           LET c == patch.changes[i]
           IN (c \in Range(filtered.changes)) <=>
                 IF c.change_type = "Remove" THEN HasMatch(c.line_number)
                 ELSE InsideMatchOf(filter.arg, c.line_number)

\* Nothing of the source or the target directory has been accessed or changed.
NothingTouched ==
    /\ log = <<>>
    /\ fsops = <<>>
    /\ reported = <<>>
    /\ source = <<>>
    /\ target = <<>>

\* C12: a diff whose parsing fails in any of its file diffs aborts the whole run:
\* apply_all returns the DiffParseError, no source or target file has been read
\* before, and no target file is written, created or deleted. (A panic of the
\* parser ends the run at the same place.)
C12_ParseErrorAbortsRun ==
    /\ [](diff_result.kind = "DiffParseError" =>
             pc = "done" /\ run_result = "DiffParseError" /\ NothingTouched)
    /\ [](diff_result.kind = "panic" =>
             pc = "done" /\ run_result = "panic" /\ NothingTouched)
    /\ [][diff_result'.kind \in {"DiffParseError", "panic"} =>
             target_dir' = target_dir]_vars

\* apply_all has returned the DiffParseError of the second file diff of a diff whose
\* first file diff is well-formed and names an existing target file.
C12_Witness ==
    /\ pc = "done"
    /\ run_result = "DiffParseError"
    /\ \E first \in RunFileDiffs, second \in RunFileDiffs :
          /\ diff_text = DiffText(first \o second, TRUE)
          /\ VersionDiff_try_from(DiffText(first, TRUE)).kind = "Ok"
          /\ FilePatch_from(VersionDiff_try_from(DiffText(first, TRUE)).value[1]).kind = "Ok"
    /\ \E path \in Paths : target_dir[path].exists

\* The reads of source files in the log, in order.
SourceReads == SelectSeq(log, LAMBDA a : a.op = "read" /\ a.path[1] = "source")

\* The file diffs 1..n have been read in the order of the diff.
ReadInOrder(n) ==
    /\ Len(SourceReads) = n
    /\ \A i \in 1..n :
          SourceReads[i].path[2] = diff_result.value[i].source_file_header.path

\* The steps of the loop body of apply_all, by the position they start from.
LoopPositions == {"file_diff", "read", "matched", "aligned", "applied"}

DiffLines == StrLines(diff_text)

\* C14: a malformed hunk location line (without the trailing ' @@', without the
\* sign of a location, with a start or a length that is no number) makes the
\* parsing of the enclosing diff return an error of kind DiffParseError.
C14_MalformedLocationLine ==
    (pc = "diff_parsed" /\ \E i \in 1..Len(DiffLines) : DiffLines[i] \in MalformedLocationLines)
        => diff_result.kind = "DiffParseError"

\* The line is a file header with a path and nothing after it.
HeaderWithoutTimestamp(line, prefix) ==
    starts_with(line, prefix) /\ Len(split_whitespace(line)) = 2

\* C15: a source ('--- ') or target ('+++ ') file header line with a path and
\* without a timestamp makes parsing return an error of kind DiffParseError.
C15_HeaderWithoutTimestamp ==
    (/\ pc = "diff_parsed"
     /\ Len(DiffLines) >= 3
     /\ \/ HeaderWithoutTimestamp(DiffLines[2], SourcePrefix)
        \/ HeaderWithoutTimestamp(DiffLines[3], TargetPrefix))
        => diff_result.kind = "DiffParseError"

\* The hunk that was parsed
ParsedHunk == diff_result.value

\* The number of lines of the given types before line i of the parsed hunk
TypesBefore(i, types) ==
    Cardinality({k \in 1..(i - 1) : ParsedHunk.lines[k].line_type \in types})

\* The start offset of the parsed hunk: target start minus source start
StartOffset == ParsedHunk.target_location.hunk_start - ParsedHunk.source_location.hunk_start

\* Line i of the parsed hunk is a Context line with a Real source and a Real
\* target location.
RealContext(i) ==
    /\ ParsedHunk.lines[i].line_type = "Context"
    /\ ParsedHunk.lines[i].source_line.kind = "RealLocation"
    /\ ParsedHunk.lines[i].target_line.kind = "RealLocation"

\* Target number minus source number of line i
LineOffset(i) == ParsedHunk.lines[i].target_line.value - ParsedHunk.lines[i].source_line.value

HunkParsed == pc = "hunk_parsed" /\ diff_result.kind = "Ok"

\* C16 as stated: for every Context line of a parsed hunk both locations are Real,
\* and target number minus source number is the same for all Context lines of the
\* hunk: the start offset of the hunk.
C16_ContextOffsetConstant ==
    HunkParsed =>
        \A i \in 1..Len(ParsedHunk.lines) :
           ParsedHunk.lines[i].line_type = "Context" =>
              RealContext(i) /\ LineOffset(i) = StartOffset

\* C16, amended: for every Context line of a parsed hunk both locations are Real,
\* and target number minus source number is the start offset of the hunk plus the
\* number of Add lines minus the number of Remove lines before it in the hunk.
C16_ContextOffsetByChanges ==
    HunkParsed =>
        \A i \in 1..Len(ParsedHunk.lines) :
           ParsedHunk.lines[i].line_type = "Context" =>
              /\ RealContext(i)
              /\ LineOffset(i) = StartOffset + TypesBefore(i, {"Add"})
                                    - TypesBefore(i, {"Remove"})

\* A hunk with different starts was parsed in which a Context line follows an Add
\* line, and another Context line follows as many Adds as Removes.
C16_Witness ==
    /\ HunkParsed
    /\ StartOffset # 0
    /\ \E i \in 1..Len(ParsedHunk.lines) :
          RealContext(i) /\ LineOffset(i) = StartOffset + 1
    /\ \E i \in 1..Len(ParsedHunk.lines) :
          /\ RealContext(i)
          /\ TypesBefore(i, {"Remove"}) > 0
          /\ LineOffset(i) = StartOffset

\* The source and the target counter at line i of the parsed hunk: the start plus
\* the number of lines before it that advance the counter.
SourceCounter(i) ==
    ParsedHunk.source_location.hunk_start + TypesBefore(i, {"Context", "Remove"})
TargetCounter(i) ==
    ParsedHunk.target_location.hunk_start + TypesBefore(i, {"Context", "Add"})

C18_ReadWriteEquality ==
    pc = "file_rendered" => rendered = disk.bytes

\* The patch is a Create of Adds only.
CreateOfAdds ==
    /\ patch.change_type = "Create"
    /\ \A i \in 1..Len(patch.changes) : patch.changes[i].change_type = "Add"

C20_CreateNeverClobbers ==
    [][(pc = "checked" /\ pc' = "applied" /\ ~dryrun /\ disk.exists) =>
          outcome'.kind = "IOError" /\ disk' = disk]_vars

\* The walk step by step returns what apply_file_modification returns.
WalkIsModification ==
    pc \in {"modified", "modify_panic"} => outcome = apply_file_modification(aligned)

\* The aligned changes of the given type anchored at line n, in the order of the list.
AnchoredAt(t, n) ==
    SelectSeq(aligned.changes, LAMBDA c : c.change_type = t /\ c.line_number = n)

\* The contents of the Adds anchored at line n, in ascending order of their change ids.
AddLinesAt(n) ==
    LET adds == Range(AnchoredAt("Add", n))
        Nth(k) == CHOOSE c \in adds :
                     Cardinality({d \in adds : d.change_id < c.change_id}) = k - 1
    IN [k \in 1..Cardinality(adds) |-> Nth(k).line]

\* The positions in the output of what belongs before / after the place of target
\* line n: the target lines and the contents of the Adds anchored below / above n.
OutputOfBelow(out, n) ==
    {i \in 1..Len(out) :
        \/ \E m \in 1..(n - 1) : out[i] = aligned.target[m]
        \/ \E c \in Range(aligned.changes) :
              c.change_type = "Add" /\ c.line_number < n /\ out[i] = c.line}
OutputOfAbove(out, n) ==
    {i \in 1..Len(out) :
        \/ \E m \in (n + 1)..Len(aligned.target) : out[i] = aligned.target[m]
        \/ \E c \in Range(aligned.changes) :
              c.change_type = "Add" /\ c.line_number > n /\ out[i] = c.line}

\* Target line n is not in the output; the contents of the Adds anchored at n stand
\* there instead, in ascending order of their ids, behind everything that belongs
\* below n and before everything that belongs above n.
ReplacedInPlace(out, n) ==
    LET adds == AddLinesAt(n)
    IN /\ aligned.target[n] \notin Range(out)
       /\ \E p \in 0..(Len(out) - Len(adds)) :
             /\ SubSeq(out, p + 1, p + Len(adds)) = adds
             /\ \A i \in OutputOfBelow(out, n) : i <= p
             /\ \A i \in OutputOfAbove(out, n) : i > p + Len(adds)

\* A Remove and an Add share the anchor n.
SharedAnchor(n) == AnchoredAt("Remove", n) # <<>> /\ AnchoredAt("Add", n) # <<>>

\* The step takes an Add from the changes.
TakesAdd ==
    /\ pending_changes # <<>>
    /\ pending_changes' = Tail(pending_changes)
    /\ Head(pending_changes).change_type = "Add"

\* C21: where a Remove and one or more Adds of a sorted aligned Modify patch share
\* the anchor n, the output lacks target line n and holds the Adds' contents at its
\* place (behind the output of the lines below n, before that of the lines above n) in
\* ascending change id order; and the Remove is taken before any of these Adds.
C21_ReplaceInPlace ==
    /\ [](pc = "modified" =>
             \A n \in 0..(Len(aligned.target) + 1) :
                SharedAnchor(n) =>
                   /\ n \in 1..Len(aligned.target)
                   /\ ReplacedInPlace(outcome.patched_file, n))
    /\ [][TakesAdd =>
             \A k \in 1..Len(pending_changes) :
                ~(/\ pending_changes[k].change_type = "Remove"
                  /\ pending_changes[k].line_number
                        = Head(pending_changes).line_number)]_vars

\* Line 2 of three target lines was replaced by two Adds; the Remove has the
\* greatest change id of the three changes.
C21_Witness ==
    /\ pc = "modified"
    /\ Len(aligned.target) = 3
    /\ Len(AnchoredAt("Add", 2)) = 2
    /\ Len(AnchoredAt("Remove", 2)) = 1
    /\ AnchoredAt("Remove", 2)[1].change_id = 2
    /\ outcome.patched_file
          = <<aligned.target[1], WalkText(0), WalkText(1), aligned.target[3]>>

\* The Adds anchored past the last target line, in the order of the list.
AddsPastEnd ==
    SelectSeq(aligned.changes,
              LAMBDA c : c.change_type = "Add" /\ c.line_number > Len(aligned.target))

\* All target lines have been walked and an Add is the next change.
AddAfterLastLine ==
    /\ pc = "modify"
    /\ target_line_number > Len(aligned.target)
    /\ pending_changes # <<>>
    /\ Head(pending_changes).change_type = "Add"

\* s ends with t / starts with t.
IsSuffix(t, s) == Len(t) <= Len(s) /\ SubSeq(s, Len(s) - Len(t) + 1, Len(s)) = t
IsPrefix(t, s) == Len(t) <= Len(s) /\ SubSeq(s, 1, Len(t)) = t

\* C22: once the last target line is walked, each Add still pending is appended to
\* the output, in the sorted order; the output of a Modify ends with the contents of
\* the Adds anchored past the last target line and starts with those of the Adds
\* anchored at 0, which stand before the first target line.
C22_AddsOutsideTarget ==
    /\ [][AddAfterLastLine =>
             /\ patched_lines' = Append(patched_lines, Head(pending_changes).line)
             /\ pending_changes' = Tail(pending_changes)]_vars
    /\ [](pc = "modified" =>
             /\ IsSuffix(ChangeLines(AddsPastEnd), outcome.patched_file)
             /\ IsPrefix(ChangeLines(AnchoredAt("Add", 0)), outcome.patched_file))

\* A target of two lines was modified by an Add anchored at 0 and two Adds anchored
\* at line 3, of which the one with the smaller id comes later in the patch.
C22_Witness ==
    /\ pc = "modified"
    /\ Len(aligned.target) = 2
    /\ Len(AnchoredAt("Add", 0)) = 1
    /\ Len(AddsPastEnd) = 2
    /\ AnchoredAt("Add", 0)[1].change_id = 1
    /\ outcome.patched_file
          = <<WalkText(1), aligned.target[1], aligned.target[2], WalkText(0), WalkText(2)>>

\* The closest matched source line at or above line n; 0 when there is none.
ClosestMatchAbove(n) == SetMax({m \in 1..n : HasMatch(m)})

EndsWithNewline(t) == Len(t) > 0 /\ t[Len(t)] = NL

\* The number of lines of a text for TextDiff::from_lines: one for every newline, and
\* one for the characters after the last newline.
TextLines(t) ==
    Cardinality({i \in 1..Len(t) : t[i] = NL})
       + (IF Len(t) > 0 /\ t[Len(t)] # NL THEN 1 ELSE 0)

\* The last entry of a vector
Last(s) == s[Len(s)]

\* C24: match_files appends to the entries of the lines of the two texts: one entry
\* to each vector that maps the lines after the final newlines to each other when
\* both texts end with a newline; one None to the vector of the side that alone
\* ends with a newline; nothing when neither does.
C24_TrailingNewline ==
    pc = "matched" =>
        LET s == to_string(source)
            t == to_string(target)
            s2t == matching.source_to_target
            t2s == matching.target_to_source
        IN IF EndsWithNewline(s) /\ EndsWithNewline(t)
           THEN /\ Len(s2t) = TextLines(s) + 1
                /\ Len(t2s) = TextLines(t) + 1
                /\ Last(s2t) = Some(TextLines(t))
                /\ Last(t2s) = Some(TextLines(s))
           ELSE IF EndsWithNewline(s)
           THEN /\ Len(s2t) = TextLines(s) + 1
                /\ Last(s2t) = None
                /\ Len(t2s) = TextLines(t)
           ELSE IF EndsWithNewline(t)
           THEN /\ Len(t2s) = TextLines(t) + 1
                /\ Last(t2s) = None
                /\ Len(s2t) = TextLines(s)
           ELSE Len(s2t) = TextLines(s) /\ Len(t2s) = TextLines(t)

\* A source that ends with a newline was matched with a target that has lines and
\* does not end with one, and a line of the source is matched.
C24_Witness ==
    /\ pc = "matched"
    /\ EndsWithNewline(to_string(source))
    /\ to_string(target) # <<>>
    /\ ~EndsWithNewline(to_string(target))
    /\ Last(matching.source_to_target) = None
    /\ \E i \in 1..Len(matching.source_to_target) : IsSome(matching.source_to_target[i])

\* The file diff the patch is derived from, and the lines of all its hunks in order.
DerivedFrom == diff_result.value[1]
AllHunkLines == HunkLinesOf(DerivedFrom.hunks)

\* The position among all hunk lines of the k-th line that is an Add or a Remove.
ChangedLineAt(k) ==
    LET changed == {i \in 1..Len(AllHunkLines) :
                       AllHunkLines[i].line_type \in {"Add", "Remove"}}
    IN CHOOSE i \in changed : Cardinality({j \in changed : j < i}) = k - 1

\* C25: the derived patch holds one change for every Add and Remove line of the hunks,
\* and no other, in the order of the diff, with the change ids 0, 1, ...; the content
\* is the line without its marker, the line number the ChangeLocation of the source
\* side of an Add and the RealLocation of the source side of a Remove.
C25_PatchFromDiff ==
    pc = "derived" =>
        /\ Len(patch.changes)
              = Cardinality({i \in 1..Len(AllHunkLines) :
                                AllHunkLines[i].line_type \in {"Add", "Remove"}})
        /\ \A k \in 1..Len(patch.changes) :
              LET l == AllHunkLines[ChangedLineAt(k)]
                  c == patch.changes[k]
              IN /\ c.change_id = k - 1
                 /\ c.change_type = l.line_type
                 /\ c.line = SubSeq(l.line, 2, Len(l.line))
                 /\ l.line[1] = (IF c.change_type = "Add" THEN "+" ELSE "-")
                 /\ c.line_number = l.source_line.value
                 /\ l.source_line.kind = (IF c.change_type = "Add" THEN "ChangeLocation"
                                          ELSE "RealLocation")

\* A patch was derived from two hunks with context and EOF lines: its last change is
\* the Add of the second hunk, at source line 9 behind the Remove of line 7 and a
\* context line.
C25_Witness ==
    /\ pc = "derived"
    /\ Len(DerivedFrom.hunks) = 2
    /\ \E i \in 1..Len(AllHunkLines) : AllHunkLines[i].line_type = "EOF"
    /\ \E i \in 1..Len(AllHunkLines) : AllHunkLines[i].line_type = "Context"
    /\ Len(patch.changes) >= 3
    /\ patch.changes[Len(patch.changes)]
          = [line |-> <<"f">>, change_type |-> "Add", line_number |-> 9,
             change_id |-> Len(patch.changes) - 1]

\* C26: the matching has an entry for every line of the source and of the target.
C26_EveryLineHasEntry ==
    pc = "matched" =>
        /\ \A i \in 1..Len(source) : IsSome(target_index(matching, i))
        /\ \A j \in 1..Len(target) : IsSome(source_index(matching, j))

\* Every line has an entry unless the artifact is one empty line.
EntriesButForOneEmptyLine ==
    pc = "matched" =>
        /\ source # <<<<>>>> => \A i \in 1..Len(source) : IsSome(target_index(matching, i))
        /\ target # <<<<>>>> => \A j \in 1..Len(target) : IsSome(source_index(matching, j))

\* The Removes of the patch refer to pairwise distinct source lines.
DistinctRemoves(p) ==
    \A i, j \in 1..Len(p.changes) :
        (/\ i # j
         /\ p.changes[i].change_type = "Remove"
         /\ p.changes[j].change_type = "Remove")
            => p.changes[i].line_number # p.changes[j].line_number

\* The number of changes taken once the walk has dealt with the first n target lines.
TakenAfterLine(p, n) == LinesLoop(SubSeq(p.target, 1, n), p.changes, 1, 1, <<>>)[1] - 1

\* The step that applies a Modify patch, aligned by the matching of its source and
\* target, whose Removes refer to distinct source lines; the target path exists.
DistinctRemovesStep ==
    /\ pc = "aligned"
    /\ pc' = "applied"
    /\ ~RejectPatch(aligned, disk)
    /\ aligned.change_type = "Modify"
    /\ DistinctRemoves(patch)

\* C27: the application of an aligned Modify patch whose Removes refer to distinct
\* source lines leaves no Remove pending: it does not panic, and every aligned Remove
\* is anchored at a line of the target and is taken when the walk is at that line,
\* not before.
C27_NoPendingRemove ==
    [][DistinctRemovesStep =>
          /\ outcome'.kind = "Ok"
          /\ ~PendingRemove(aligned)
          /\ \A k \in 1..Len(aligned.changes) :
                aligned.changes[k].change_type = "Remove" =>
                   LET n == aligned.changes[k].line_number
                   IN /\ n \in 1..Len(aligned.target)
                      /\ TakenAfterLine(aligned, n - 1) < k
                      /\ TakenAfterLine(aligned, n) >= k]_vars

\* Two Removes of different source lines, none of them rejected, were applied and
\* written: their two target lines are gone.
C27_Witness ==
    /\ pc = "applied"
    /\ patch.change_type = "Modify"
    /\ outcome.kind = "Ok"
    /\ fsops # <<>>
    /\ Len(aligned.changes) = 2
    /\ aligned.changes[1].change_type = "Remove"
    /\ aligned.changes[2].change_type = "Remove"
    /\ aligned.changes[1].line_number # aligned.changes[2].line_number
    /\ Len(outcome.patched_file) = Len(target) - 2

\* Every change of the patch occurs exactly once in the two lists together, with its
\* content, type and id; in the first list its line number may differ if realigned
\* is set, in the second it does not.
Conserved(changes, rejected_changes, realigned) ==
    LET Same(c, d) == /\ c.line = d.line
                      /\ c.change_type = d.change_type
                      /\ c.change_id = d.change_id
    IN /\ Len(changes) + Len(rejected_changes) = Len(patch.changes)
       /\ \A i \in 1..Len(patch.changes) :
             LET c == patch.changes[i]
                 kept == {k \in 1..Len(changes) : Same(changes[k], c)}
                 rejected == {k \in 1..Len(rejected_changes) :
                                 Same(rejected_changes[k], c)}
             IN /\ Cardinality(kept) + Cardinality(rejected) = 1
                /\ \A k \in rejected : rejected_changes[k] = c
                /\ \A k \in kept : realigned \/ changes[k] = c

\* C28: a filter and the aligner lose and duplicate no change: each change of the
\* patch is once among the changes or the rejects of the result, unchanged but for
\* the line number the aligner gives to a change it does not reject; the change type
\* of the patch is kept.
C28_ChangesConserved ==
    /\ pc = "filtered" =>
          /\ Conserved(filtered.changes, filtered.rejected_changes, FALSE)
          /\ filtered.change_type = patch.change_type
    /\ pc = "aligned" =>
          /\ Conserved(aligned.changes, aligned.rejected_changes, TRUE)
          /\ aligned.change_type = patch.change_type

\* The aligner has rejected one of two changes and moved the other to another line.
C28_Witness ==
    /\ pc = "aligned"
    /\ Len(patch.changes) = 2
    /\ Len(aligned.changes) = 1
    /\ Len(aligned.rejected_changes) = 1
    /\ aligned.changes[1].line_number
          # patch.changes[aligned.changes[1].change_id + 1].line_number

\* The number of aligned changes of the given type.
CountOf(t) == Len(SelectSeq(aligned.changes, LAMBDA c : c.change_type = t))

\* The target lines at which no Remove is anchored, in their order.
LinesNotRemoved ==
    LET kept == {n \in 1..Len(aligned.target) : AnchoredAt("Remove", n) = <<>>}
        Nth(k) == CHOOSE n \in kept : Cardinality({m \in kept : m < n}) = k - 1
    IN [k \in 1..Cardinality(kept) |-> aligned.target[Nth(k)]]

\* C29: a Modify that returns Ok has as many output lines as the target has lines,
\* plus the Adds, minus the Removes of the aligned changes; the content of every Add
\* is in the output; and the target lines that are not removed are in the output in
\* the order they have in the target.
C29_ModifyOutput ==
    pc = "modified" =>
        LET out == outcome.patched_file
        IN /\ outcome.kind = "Ok"
           /\ Len(out) = Len(aligned.target) + CountOf("Add") - CountOf("Remove")
           /\ \A c \in Range(aligned.changes) :
                 c.change_type = "Add" =>
                    \E i \in 1..Len(out) : out[i] = c.line
           /\ SelectSeq(out, LAMBDA l : l \in Range(aligned.target)) = LinesNotRemoved

\* Of three target lines the second was removed, and two lines were added.
C29_Witness ==
    /\ pc = "modified"
    /\ Len(aligned.target) = 3
    /\ CountOf("Add") = 2
    /\ AnchoredAt("Remove", 2) # <<>>
    /\ Len(outcome.patched_file) = 4
    /\ LinesNotRemoved = <<aligned.target[1], aligned.target[3]>>

\* The pairs <<i, j>> of a line i of the source and a line j of the target that the
\* matching maps to each other.
MatchedPairs ==
    {<<i, MatchOf(i)>> : i \in {n \in 1..Len(source) : HasMatch(n)}}
        \cap ((1..Len(source)) \X (1..Len(target)))

====
